---- MODULE Spec2Model ----
(***************************************************************************)
(* Model of the BloodBridge backend: the donor matching engine            *)
(* (services/MatchingEngine.ts, here src/unnamed/part_004), the            *)
(* notification and user services (part_005), the socket manager           *)
(* (src/src/config/socket.ts) and routes of the HTTP server (src/index.js, *)
(* part_003).                                                              *)
(*                                                                         *)
(* Specifications                                                          *)
(*  - Spec: runs of the matching engine; SpecRuns: two concurrent          *)
(*    expandSearchRadius callers; SpecFn: calls of the pure methods.       *)
(*  - SpecApi: registration and admin routes; SpecLife: the donation life  *)
(*    cycle of a request; SpecAdmin: POST /create-first-admin;             *)
(*    SpecEvents: event registration.                                      *)
(*  - SpecSocket: SocketManager; SpecNotify: the unread counter.           *)
(*                                                                         *)
(* Conventions                                                             *)
(*  - The clock unit is one hour; Date values are hours since the epoch.   *)
(*    Every Math.floor(x / (1000*60*60*24)) keeps its floor: DayMs is the  *)
(*    length of a day in clock units.                                      *)
(*  - Coordinates are kilometre marks on a line; geolib's getDistance      *)
(*    returns metres and calculateDistance divides by 1000.                *)
(*  - Scores are exact rationals kept as integers in units of 1/ScoreDen   *)
(*    (JavaScript computes them in double precision).                      *)
(*  - A rate (responseRate, completionRate) is a fraction [n, d].          *)
(***************************************************************************)
EXTENDS Integers, Sequences, FiniteSets, TLC

VARIABLES user, activityLog, request, notification, now, ret,
          inflight,     \* the calls and handlers between two of their awaits
          emailIndex,   \* the user collection has a unique index on email
          io,           \* SocketManager.io is set (initialize was called)
          connectedUsers, \* SocketManager.connectedUsers: userId -> socketId
          sockets,      \* the sockets connected to the Socket.IO server
          redis,        \* the Redis keys unread_count:<userId> -> value
          event         \* the events collection

\* the state of the socket manager, the cache and the events collection
services == <<io, connectedUsers, sockets, redis, event>>

vars ==
  <<user, activityLog, request, notification, now, ret, inflight, emailIndex,
    io, connectedUsers, sockets, redis, event>>

\* no socket server, no cached counter, no event
ServicesInit ==
  /\ io = FALSE
  /\ connectedUsers = <<>>
  /\ sockets = {}
  /\ redis = <<>>
  /\ event = <<>>

(***************************************************************************)
(* Bounds of the model                                                     *)
(***************************************************************************)
MaxLog == 2        \* most activity-log entries of one kind for one donor
MaxPool == 7       \* largest enumerated donor pool
BigPool == 22      \* size of the dense donor pool (more than any top-N)
LongPool == 103    \* size of the longest donor pool (more than the limit)
MaxSockets == 3    \* most sockets connected at the same time
MaxNotifications == 3 \* most documents of the notification collection
MaxCapacity == 2   \* largest capacity of an event
MaxJump == 4       \* latest clock read at which the clock may advance
MaxElapsed == 1    \* most hours the clock advances over a behaviour
MaxUsers == 3      \* most user records of the HTTP server's collection
MaxRequests == 1   \* most blood requests of the HTTP server's collection

(***************************************************************************)
(* Small helpers                                                           *)
(***************************************************************************)
Max(a, b) == IF a >= b THEN a ELSE b

Min(a, b) == IF a <= b THEN a ELSE b

Abs(a) == IF a >= 0 THEN a ELSE 0 - a

RECURSIVE Fact(_)
Fact(n) == IF n <= 1 THEN 1 ELSE n * Fact(n - 1)

Range(s) == {s[i] : i \in 1..Len(s)}

\* a function on 1..n as an explicit sequence
AsSeq(f) == SubSeq(f, 1, Len(f))

\* an optional Date that is absent (lastDonationDate?: Date, dateOfBirth?: Date)
NoDate == -1

\* 1000 * 60 * 60 * 24 ms, in clock units
DayMs == 24

\* scores are integers in units of 1/ScoreDen: 50*distance/maxDistance needs
\* a multiple of 6, the urgency multipliers a multiple of 10, 20*n/d a
\* multiple of every d in 1..MaxLog
ScoreDen == 60 * Fact(MaxLog)

(***************************************************************************)
(* Enumerations (src/src/types/index.ts)                                   *)
(***************************************************************************)
BloodGroup == {"A+", "A-", "B+", "B-", "AB+", "AB-", "O+", "O-"}

UrgencyLevel == {"low", "medium", "high", "critical"}

(***************************************************************************)
(* Compatibility table                                                     *)
(***************************************************************************)
compatibilityMatrix ==
  [d \in BloodGroup |->
     CASE d = "O-"  -> {"O-", "O+", "A-", "A+", "B-", "B+", "AB-", "AB+"}
       [] d = "O+"  -> {"O+", "A+", "B+", "AB+"}
       [] d = "A-"  -> {"A-", "A+", "AB-", "AB+"}
       [] d = "A+"  -> {"A+", "AB+"}
       [] d = "B-"  -> {"B-", "B+", "AB-", "AB+"}
       [] d = "B+"  -> {"B+", "AB+"}
       [] d = "AB-" -> {"AB-", "AB+"}
       [] d = "AB+" -> {"AB+"}]

\* isBloodCompatible read as "the two groups match in either direction"
isBloodCompatible_symmetric(donorBloodGroup, recipientBloodGroup) ==
  \/ recipientBloodGroup \in compatibilityMatrix[donorBloodGroup]
  \/ donorBloodGroup \in compatibilityMatrix[recipientBloodGroup]

isBloodCompatible(donorBloodGroup, recipientBloodGroup) ==
  LET compatibleRecipients ==
        IF donorBloodGroup \in DOMAIN compatibilityMatrix
        THEN compatibilityMatrix[donorBloodGroup] ELSE {}
  IN  recipientBloodGroup \in compatibleRecipients

\* getCompatibleBloodGroups reading the table in the wrong direction: the
\* groups the recipient's group can give to
getCompatibleBloodGroups_reversed(recipientBloodGroup) ==
  {donorGroup \in DOMAIN compatibilityMatrix :
     donorGroup \in compatibilityMatrix[recipientBloodGroup]}

getCompatibleBloodGroups(recipientBloodGroup) ==
  {donorGroup \in DOMAIN compatibilityMatrix :
     recipientBloodGroup \in compatibilityMatrix[donorGroup]}

(***************************************************************************)
(* Urgency tables                                                          *)
(***************************************************************************)
\* the radius table with the low and medium rows exchanged
getMaxDistanceByUrgency_swapped(urgency) ==
  CASE urgency = "critical" -> 100
    [] urgency = "high"     -> 50
    [] urgency = "medium"   -> 15
    [] urgency = "low"      -> 25
    [] OTHER                -> 25

getMaxDistanceByUrgency(urgency) ==
  CASE urgency = "critical" -> 100
    [] urgency = "high"     -> 50
    [] urgency = "medium"   -> 25
    [] urgency = "low"      -> 15
    [] OTHER                -> 25

\* the top-N table with the low row copied from the medium row
getMaxResultsByUrgency_lowAsMedium(urgency) ==
  CASE urgency = "critical" -> 20
    [] urgency = "high"     -> 15
    [] urgency = "medium"   -> 10
    [] urgency = "low"      -> 10
    [] OTHER                -> 10

getMaxResultsByUrgency(urgency) ==
  CASE urgency = "critical" -> 20
    [] urgency = "high"     -> 15
    [] urgency = "medium"   -> 10
    [] urgency = "low"      -> 5
    [] OTHER                -> 10

\* the multiplier table with the high row at 1.2
getUrgencyMultiplier_high12(urgency) ==
  CASE urgency = "critical" -> 15
    [] urgency = "high"     -> 12
    [] urgency = "medium"   -> 11
    [] urgency = "low"      -> 10
    [] OTHER                -> 10

\* the multiplier times 10: 1.5, 1.3, 1.1, 1.0
getUrgencyMultiplier(urgency) ==
  CASE urgency = "critical" -> 15
    [] urgency = "high"     -> 13
    [] urgency = "medium"   -> 11
    [] urgency = "low"      -> 10
    [] OTHER                -> 10

(***************************************************************************)
(* Distance                                                                *)
(***************************************************************************)
\* geolib getDistance: metres between two points
getDistance(coord1, coord2) == 1000 * Abs(coord1 - coord2)

calculateDistance(coord1, coord2) == getDistance(coord1, coord2) \div 1000

(***************************************************************************)
(* Eligibility                                                             *)
(***************************************************************************)
\* checkAvailability with the days since the last donation rounded to the
\* nearest day instead of floored
checkAvailability_round(donor, t) ==
  LET daysSinceLastDonation ==
        (2 * (t - donor.lastDonationDate) + DayMs) \div (2 * DayMs)
      age == (t - donor.dateOfBirth) \div (DayMs * 365)
      restrictions ==
        IF donor.dateOfBirth # NoDate /\ (age < 18 \/ age > 65)
        THEN <<"Age must be between 18-65 years">> ELSE <<>>
  IN  IF donor.lastDonationDate # NoDate /\ daysSinceLastDonation < 90
      THEN [isAvailable |-> FALSE,
            nextAvailableDate |-> donor.lastDonationDate + 90 * DayMs,
            restrictions |-> <<"Must wait 90 days between donations">>]
      ELSE [isAvailable |-> Len(restrictions) = 0,
            nextAvailableDate |-> NoDate,
            restrictions |-> restrictions]

\* checkAvailability with the upper age limit exclusive (age >= 65)
checkAvailability_under65(donor, t) ==
  LET daysSinceLastDonation == (t - donor.lastDonationDate) \div DayMs
      age == (t - donor.dateOfBirth) \div (DayMs * 365)
      restrictions ==
        IF donor.dateOfBirth # NoDate /\ (age < 18 \/ age >= 65)
        THEN <<"Age must be between 18-65 years">> ELSE <<>>
  IN  IF donor.lastDonationDate # NoDate /\ daysSinceLastDonation < 90
      THEN [isAvailable |-> FALSE,
            nextAvailableDate |-> donor.lastDonationDate + 90 * DayMs,
            restrictions |-> <<"Must wait 90 days between donations">>]
      ELSE [isAvailable |-> Len(restrictions) = 0,
            nextAvailableDate |-> NoDate,
            restrictions |-> restrictions]

checkAvailability(donor, t) ==
  LET daysSinceLastDonation == (t - donor.lastDonationDate) \div DayMs
      age == (t - donor.dateOfBirth) \div (DayMs * 365)
      restrictions ==
        IF donor.dateOfBirth # NoDate /\ (age < 18 \/ age > 65)
        THEN <<"Age must be between 18-65 years">> ELSE <<>>
  IN  IF donor.lastDonationDate # NoDate /\ daysSinceLastDonation < 90
      THEN [isAvailable |-> FALSE,
            nextAvailableDate |-> donor.lastDonationDate + 90 * DayMs,
            restrictions |-> <<"Must wait 90 days between donations">>]
      ELSE [isAvailable |-> Len(restrictions) = 0,
            nextAvailableDate |-> NoDate,
            restrictions |-> restrictions]

(***************************************************************************)
(* Response history (activityLog collection)                               *)
(***************************************************************************)
\* an activityLog document: [userId, action, responseTime]; responseTime is
\* details.responseTime in ms, 0 when the entry has none
ResponseActions ==
  {"notification_responded", "donation_confirmed", "donation_declined"}

RECURSIVE SumResponseTime(_)
SumResponseTime(s) ==
  IF s = <<>> THEN 0 ELSE Head(s).responseTime + SumResponseTime(Tail(s))

\* getResponseHistory with the defaults also for a donor whose log holds
\* no notification
getResponseHistory_defaultsWhenEmpty(donorId, log, readFails) ==
  LET responses ==
        SelectSeq(log, LAMBDA e : e.userId = donorId
                                  /\ e.action \in ResponseActions)
      notifications ==
        SelectSeq(log, LAMBDA e : e.userId = donorId
                                  /\ e.action = "notification_received")
      totalRequests == Len(notifications)
      confirmedDonations ==
        Len(SelectSeq(responses, LAMBDA r : r.action = "donation_confirmed"))
      responseTimes == SelectSeq(responses, LAMBDA r : r.responseTime # 0)
  IN  IF readFails \/ totalRequests = 0
      THEN [totalRequests |-> 0,
            responseRate |-> [n |-> 1, d |-> 2],
            averageResponseTime |-> [n |-> 30, d |-> 1],
            completionRate |-> [n |-> 3, d |-> 10]]
      ELSE [totalRequests |-> totalRequests,
            responseRate |-> [n |-> Len(responses), d |-> totalRequests],
            averageResponseTime |->
              IF Len(responseTimes) > 0
              THEN [n |-> SumResponseTime(responseTimes),
                    d |-> Len(responseTimes) * 1000 * 60]
              ELSE [n |-> 0, d |-> 1000 * 60],
            completionRate |-> [n |-> confirmedDonations,
                                d |-> totalRequests]]

\* readFails: the activityLog read throws; the catch returns the defaults
getResponseHistory(donorId, log, readFails) ==
  IF readFails
  THEN [totalRequests |-> 0,
        responseRate |-> [n |-> 1, d |-> 2],
        averageResponseTime |-> [n |-> 30, d |-> 1],
        completionRate |-> [n |-> 3, d |-> 10]]
  ELSE
    LET responses ==
          SelectSeq(log, LAMBDA e : e.userId = donorId
                                    /\ e.action \in ResponseActions)
        notifications ==
          SelectSeq(log, LAMBDA e : e.userId = donorId
                                    /\ e.action = "notification_received")
        totalRequests ==
          IF Len(notifications) # 0 THEN Len(notifications) ELSE 1
        totalResponses == Len(responses)
        confirmedDonations ==
          Len(SelectSeq(responses, LAMBDA r : r.action = "donation_confirmed"))
        responseTimes == SelectSeq(responses, LAMBDA r : r.responseTime # 0)
    IN  [totalRequests |-> totalRequests,
         responseRate |-> [n |-> totalResponses, d |-> totalRequests],
         averageResponseTime |->
           IF Len(responseTimes) > 0
           THEN [n |-> SumResponseTime(responseTimes),
                 d |-> Len(responseTimes) * 1000 * 60]
           ELSE [n |-> 0, d |-> 1000 * 60],
         completionRate |-> [n |-> confirmedDonations, d |-> totalRequests]]

(***************************************************************************)
(* Scorer                                                                  *)
(***************************************************************************)
\* the clamp without its upper limit
clampScore_noCap(score) == Max(0, score)

\* Math.max(0, Math.min(300, score)), on scores times ScoreDen
clampScore(score) == Max(0, Min(300 * ScoreDen, score))

\* the distance term with the decay inverted: farther donors get more
distanceScore_rising(distance, maxDistance) ==
  Max(0, Min(50 * ScoreDen, (distance * 50 * ScoreDen) \div maxDistance))

\* Math.max(0, 50 - (distance / maxDistance) * 50), times ScoreDen
distanceScore(distance, maxDistance) ==
  Max(0, 50 * ScoreDen - (distance * 50 * ScoreDen) \div maxDistance)

\* the "recent donation penalty" block of calculateMatchScore: what it
\* subtracts from the score when Date.now() reads t
recentDonationPenalty(donor, t) ==
  LET daysSinceLastDonation == (t - donor.lastDonationDate) \div DayMs
  IN  IF donor.lastDonationDate = NoDate THEN 0
      ELSE IF daysSinceLastDonation < 90 THEN 50
      ELSE IF daysSinceLastDonation > 365 THEN 10
      ELSE 0

\* clk = <<t1, t2, t3>>: the clock as read by checkAvailability, by the
\* daysUntilAvailable computation and by the recency penalty.
\* The result is the score times ScoreDen.
calculateMatchScore(donor, req, clk, log, logFails) ==
  IF ~isBloodCompatible(donor.bloodGroup, req.bloodGroup)
  THEN 0
  ELSE
    LET base == 100 + (IF donor.bloodGroup = req.bloodGroup THEN 20 ELSE 0)
        distance == calculateDistance(req.location, donor.location)
        maxDistance == getMaxDistanceByUrgency(req.urgencyLevel)
        availability == checkAvailability(donor, clk[1])
        daysUntilAvailable ==
          (availability.nextAvailableDate - clk[2]) \div DayMs
        availabilityScore ==
          IF availability.isAvailable THEN 30
          ELSE IF availability.nextAvailableDate # NoDate
               THEN Max(0, 30 - daysUntilAvailable)
               ELSE 0
        responseHistory == getResponseHistory(donor._id, log, logFails)
        historyScore ==
          (responseHistory.responseRate.n * 20 * ScoreDen)
             \div responseHistory.responseRate.d
        penalty == recentDonationPenalty(donor, clk[3])
        score ==
          (base + availabilityScore - penalty) * ScoreDen
            + distanceScore(distance, maxDistance) + historyScore
        urgencyMultiplier == getUrgencyMultiplier(req.urgencyLevel)
    IN  clampScore((score * urgencyMultiplier) \div 10)

(***************************************************************************)
(* Candidate search                                                        *)
(***************************************************************************)
\* A stable sort of <<[key, item]>> by ascending key, as Array.prototype.sort
\* (stable since Node 11) and the $near cursor order it: an element comes
\* after the elements with a smaller key and after the earlier elements with
\* the same key.
StableSort(s) ==
  LET n == Len(s)
      key == AsSeq([i \in 1..n |-> s[i].key])
      rank == AsSeq([i \in 1..n |->
                 1 + Cardinality({j \in 1..n :
                                    \/ key[j] < key[i]
                                    \/ key[j] = key[i] /\ j < i})])
  IN  AsSeq([p \in 1..n |-> s[CHOOSE i \in 1..n : rank[i] = p]])

Items(s) == AsSeq([i \in 1..Len(s) |-> s[i].item])

\* cursor.limit(n)
Limit(s, n) == SubSeq(s, 1, Min(n, Len(s)))

\* the callback of donors.filter: the 90 days minimum gap, with one day
\* too many
eligibleDonorsFilter_over90(donor, t) ==
  \/ donor.lastDonationDate = NoDate
  \/ (t - donor.lastDonationDate) \div DayMs > 90

\* the callback of donors.filter: the 90 days minimum gap
eligibleDonorsFilter(donor, t) ==
  \/ donor.lastDonationDate = NoDate
  \/ (t - donor.lastDonationDate) \div DayMs >= 90

\* findCompatibleDonors with the 90-day filter applied before the limit
findCompatibleDonors_filterFirst(criteria, users, t) ==
  LET compatibleBloodGroups == getCompatibleBloodGroups(criteria.bloodGroup)
      Matches(u) ==
        /\ u.role \in {"donor", "volunteer"}
        /\ u.status = "active"
        /\ u.bloodGroup \in compatibleBloodGroups
        /\ u._id \notin criteria.excludeUserIds
        /\ getDistance(criteria.location.coordinates, u.location)
             <= criteria.location.maxDistance * 1000
      found == SelectSeq(users, Matches)
      nearestFirst ==
        Items(StableSort(
          AsSeq([i \in 1..Len(found) |->
             [key |-> getDistance(criteria.location.coordinates,
                                  found[i].location),
              item |-> found[i]]])))
      eligible ==
        SelectSeq(nearestFirst, LAMBDA donor : eligibleDonorsFilter(donor, t))
  IN  Limit(eligible, 100)

\* criteria = [bloodGroup, location |-> [coordinates, maxDistance],
\*             urgencyLevel, excludeUserIds]; t is Date.now() in the filter.
\* $near returns the documents nearest first.
findCompatibleDonors(criteria, users, t) ==
  LET compatibleBloodGroups == getCompatibleBloodGroups(criteria.bloodGroup)
      Matches(u) ==
        /\ u.role \in {"donor", "volunteer"}
        /\ u.status = "active"
        /\ u.bloodGroup \in compatibleBloodGroups
        /\ u._id \notin criteria.excludeUserIds
        /\ getDistance(criteria.location.coordinates, u.location)
             <= criteria.location.maxDistance * 1000
      found == SelectSeq(users, Matches)
      nearestFirst ==
        Items(StableSort(
          AsSeq([i \in 1..Len(found) |->
             [key |-> getDistance(criteria.location.coordinates,
                                  found[i].location),
              item |-> found[i]]])))
      donors == Limit(nearestFirst, 100)
  IN  SelectSeq(donors, LAMBDA donor : eligibleDonorsFilter(donor, t))

(***************************************************************************)
(* Clock and fault scenarios of one run                                    *)
(***************************************************************************)
\* c = [base, jumpAt, delta]: the clock reads base up to the jumpAt-th
\* Date.now() of the run and base + delta from then on.  Read 0 is the
\* candidate filter; candidate i reads 4(i-1)+1 .. 4(i-1)+4.
Clock(c, k) == IF k >= c.jumpAt THEN c.base + c.delta ELSE c.base

\* which collaborator call of the run throws
NoFail ==
  [request |-> FALSE, user |-> FALSE, log |-> FALSE,
   update |-> FALSE, notify |-> FALSE]

(***************************************************************************)
(* findOptimalDonors                                                       *)
(***************************************************************************)
\* the sort written as "ascending, then reverse()": equal scores end up in
\* reverse arrival order
SortByMatchScore_reversed(donorMatches) ==
  LET asc == Items(StableSort(
               AsSeq([i \in 1..Len(donorMatches) |->
                  [key |-> donorMatches[i].matchScore,
                   item |-> donorMatches[i]]])))
  IN  AsSeq([i \in 1..Len(asc) |-> asc[Len(asc) + 1 - i]])

\* donorMatches.sort((a, b) => b.matchScore - a.matchScore)
SortByMatchScore(donorMatches) ==
  Items(StableSort(
    AsSeq([i \in 1..Len(donorMatches) |->
       [key |-> 0 - donorMatches[i].matchScore, item |-> donorMatches[i]]])))

\* the DonorMatch of every candidate, in candidate order (the for loop)
buildDonorMatches(compatibleDonors, req, log, c, fail) ==
  AsSeq([i \in 1..Len(compatibleDonors) |->
     LET donor == compatibleDonors[i]
         k == 4 * (i - 1)
     IN  [donorId |-> donor._id,
          bloodGroup |-> donor.bloodGroup,
          distance |-> calculateDistance(req.location, donor.location),
          lastDonationDate |-> donor.lastDonationDate,
          responseHistory |-> getResponseHistory(donor._id, log, fail.log),
          matchScore |->
            calculateMatchScore(donor, req,
              <<Clock(c, k + 1), Clock(c, k + 2), Clock(c, k + 3)>>,
              log, fail.log),
          availability |-> checkAvailability(donor, Clock(c, k + 4))]])

findOptimalDonorsCriteria(req) ==
  [bloodGroup |-> req.bloodGroup,
   location |-> [coordinates |-> req.location,
                 maxDistance |-> getMaxDistanceByUrgency(req.urgencyLevel)],
   urgencyLevel |-> req.urgencyLevel,
   excludeUserIds |-> {req.requesterId}]

\* fail.user: userCollection.find throws; the catch returns []
findOptimalDonors(req, users, log, c, fail) ==
  LET criteria == findOptimalDonorsCriteria(req)
      compatibleDonors == findCompatibleDonors(criteria, users, Clock(c, 0))
      donorMatches == buildDonorMatches(compatibleDonors, req, log, c, fail)
      sorted == SortByMatchScore(donorMatches)
      maxResults == getMaxResultsByUrgency(req.urgencyLevel)
  IN  IF fail.user THEN <<>>
      ELSE SubSeq(sorted, 1, Min(maxResults, Len(sorted)))

(***************************************************************************)
(* notifyMatchedDonors                                                     *)
(***************************************************************************)
\* The notification collection is the set of its documents without _id and
\* createdAt.  sendUrgentAlert and sendBulkNotifications both insertMany and
\* then mark the documents sent; insertMany throws on an empty batch and on
\* a store failure, and notifyMatchedDonors catches either.
sendBulkNotifications(notifs, userIds, requestId, priority, channels) ==
  notifs \cup {[userId |-> userIds[i], type |-> "urgent_request",
                requestId |-> requestId, priority |-> priority,
                channels |-> channels,
                status |-> "sent"] : i \in 1..Len(userIds)}

\* the urgent alert: a bulk notification of priority critical on the
\* in-app, push and sms channels
sendUrgentAlert(notifs, requestId, targetDonors) ==
  sendBulkNotifications(notifs, targetDonors, requestId, "critical",
                        {"in_app", "push", "sms"})

\* the call of notifyMatchedDonors with the high urgency on the urgent
\* path too
notifyMatchedDonorsCall_highAsUrgent(req, matches) ==
  LET donorIds == AsSeq([i \in 1..Len(matches) |-> matches[i].donorId])
  IN  IF req.urgencyLevel \in {"critical", "high"}
      THEN [fn |-> "sendUrgentAlert", requestId |-> req._id,
            userIds |-> donorIds, priority |-> "critical"]
      ELSE [fn |-> "sendBulkNotifications", requestId |-> req._id,
            userIds |-> donorIds,
            priority |-> IF req.urgencyLevel = "high" THEN "high"
                         ELSE "medium"]

\* the one call notifyMatchedDonors makes on the notification service
notifyMatchedDonorsCall(req, matches) ==
  LET donorIds == AsSeq([i \in 1..Len(matches) |-> matches[i].donorId])
  IN  IF req.urgencyLevel = "critical"
      THEN [fn |-> "sendUrgentAlert", requestId |-> req._id,
            userIds |-> donorIds, priority |-> "critical"]
      ELSE [fn |-> "sendBulkNotifications", requestId |-> req._id,
            userIds |-> donorIds,
            priority |-> IF req.urgencyLevel = "high" THEN "high"
                         ELSE "medium"]

\* the call is awaited inside try; the catch logs the error and returns
notifyMatchedDonors(notifs, req, matches, notifyFails) ==
  LET call == notifyMatchedDonorsCall(req, matches)
  IN  IF notifyFails \/ call.userIds = <<>> THEN notifs
      ELSE IF call.fn = "sendUrgentAlert"
      THEN sendUrgentAlert(notifs, call.requestId, call.userIds)
      ELSE sendBulkNotifications(notifs, call.userIds, call.requestId,
                                 call.priority, {"in_app"})

(***************************************************************************)
(* getMatchingMetrics                                                      *)
(***************************************************************************)
RECURSIVE SumDistance(_)
SumDistance(matches) ==
  IF matches = <<>> THEN 0
  ELSE Head(matches).distance + SumDistance(Tail(matches))

\* the sum over the requests ids of their average match distance, [n, d]
RECURSIVE SumAverageDistance(_, _)
SumAverageDistance(ids, reqs) ==
  IF ids = {} THEN [n |-> 0, d |-> 1]
  ELSE LET id == CHOOSE x \in ids : TRUE
           rest == SumAverageDistance(ids \ {id}, reqs)
           sum == SumDistance(reqs[id].matchedDonors)
           len == Len(reqs[id].matchedDonors)
       IN  [n |-> sum * rest.d + rest.n * len, d |-> len * rest.d]

\* readFails: the request read throws; the catch returns zeros
getMatchingMetrics(reqs, t, readFails) ==
  LET recentMatches ==
        {id \in DOMAIN reqs :
           /\ reqs[id].createdAt >= t - 30 * DayMs
           /\ reqs[id].matchedDonors # <<>>}
      count == Cardinality(recentMatches)
      sumAvg == SumAverageDistance(recentMatches, reqs)
      successfulRequests ==
        Cardinality({id \in recentMatches :
                       reqs[id].status \in {"completed", "verified"}})
  IN  IF readFails
      THEN [totalMatches |-> 0, averageDistance |-> [n |-> 0, d |-> 1],
            averageResponseTime |-> 0, successRate |-> [n |-> 0, d |-> 1],
            lastUpdated |-> t]
      ELSE [totalMatches |->
              Cardinality(UNION {{id} \X (1..Len(reqs[id].matchedDonors)) :
                                   id \in recentMatches}),
            averageDistance |->
              IF count > 0 THEN [n |-> sumAvg.n, d |-> sumAvg.d * count]
              ELSE [n |-> 0, d |-> 1],
            averageResponseTime |-> 45,
            successRate |->
              IF count > 0 THEN [n |-> successfulRequests, d |-> count]
              ELSE [n |-> 0, d |-> 1],
            lastUpdated |-> t]

(***************************************************************************)
(* The stores at start-up                                                  *)
(***************************************************************************)
\* the clock at start-up: 70 years after the epoch
Now0 == 70 * 365 * DayMs

Years(n) == n * 365 * DayMs

Days(n) == n * DayMs

User(bloodGroup, role, status, location, lastDonationDate, dateOfBirth) ==
  [_id |-> 0, bloodGroup |-> bloodGroup, role |-> role, status |-> status,
   location |-> location, lastDonationDate |-> lastDonationDate,
   dateOfBirth |-> dateOfBirth]

\* the kinds of user record the donor pools are made of
DonorKinds ==
  << User("O-", "donor", "active", 5, NoDate, NoDate),
     User("O+", "donor", "active", 0 - 3, NoDate, Now0 - Years(30)),
     User("A+", "volunteer", "active", 20, Now0 - Days(91), Now0 - Years(18)),
     User("A-", "donor", "active", 5, Now0 - Days(90) + 1, NoDate),
     User("O-", "donor", "active", 60, Now0 - Days(366), Now0 - Years(66)),
     User("O-", "admin", "active", 1, NoDate, NoDate),
     User("A-", "donor", "active", 15, NoDate, Now0 - Years(18) + 1),
     User("O-", "donor", "active", 120, NoDate, NoDate),
     User("O-", "donor", "blocked", 2, NoDate, NoDate) >>

\* n users; user i is of kind start + (i-1)*stride, cyclically
Pool(n, start, stride) ==
  AsSeq([i \in 1..n |->
     [DonorKinds[((start + (i - 1) * stride) % Len(DonorKinds)) + 1]
        EXCEPT !._id = i]])

\* the users of the given kinds, in order
PoolOf(kinds) ==
  AsSeq([i \in 1..Len(kinds) |-> [DonorKinds[kinds[i] + 1] EXCEPT !._id = i]])

\* an O- donor 5 km away, the requester (an admin), an O+ donor 3 km away
TwoDonorPool == PoolOf(<<0, 5, 1>>)

\* the empty pool, every kind alone, every kind with its second neighbour
\* (user 2 is the requester), two crowds and a dense pool of one kind
PoolShapes ==
  {<<0, 0, 0>>}
    \cup {<<1, start, 0>> : start \in 0..(Len(DonorKinds) - 1)}
    \cup {<<3, start, 1>> : start \in 0..(Len(DonorKinds) - 1)}
    \cup {<<MaxPool, 0, stride>> : stride \in 0..1}
    \cup {<<BigPool, 0, 0>>}

LogEntries(userId, action, responseTime, n) ==
  AsSeq([i \in 1..n |->
     [userId |-> userId, action |-> action, responseTime |-> responseTime]])

\* user 1 received a notifications and confirmed MaxLog - a donations;
\* user 3 received MaxLog notifications and responded to a of them
LogFor(a) ==
  LogEntries(1, "notification_received", 0, a)
    \o LogEntries(1, "donation_confirmed", 0, MaxLog - a)
    \o LogEntries(3, "notification_received", 0, MaxLog)
    \o LogEntries(3, "notification_responded", 120000, a)

Logs == {LogFor(a) : a \in 0..MaxLog}

Request(bloodGroup, urgencyLevel) ==
  [_id |-> "r1", bloodGroup |-> bloodGroup, urgencyLevel |-> urgencyLevel,
   location |-> 0, requesterId |-> 2, matchedDonors |-> <<>>,
   status |-> "pending", createdAt |-> Now0, updatedAt |-> Now0]

Requests ==
  {Request(g, u) : g \in {"O-", "A+"}, u \in UrgencyLevel}

\* the request ids a caller passes: the stored one and an unknown one
RequestIds == {"r1", "r0"}

\* the radii a caller passes to expandSearchRadius, in km
NewRadii == {10, 60}

\* no fault and a clock that stands still
StillScenario(t) == <<[base |-> t, jumpAt |-> 0, delta |-> 0], NoFail>>

\* one fault and a clock that stands still, or no fault and a clock that
\* advances once
Scenarios(t) ==
  LET still == StillScenario(t)[1]
      faults == {NoFail} \cup
                {[NoFail EXCEPT ![f] = TRUE] :
                   f \in {"request", "user", "log", "update", "notify"}}
  IN  {<<still, f>> : f \in faults}
        \cup {<<[base |-> t, jumpAt |-> j, delta |-> 1], NoFail>> :
                j \in 1..(IF t < Now0 + MaxElapsed THEN MaxJump ELSE 0)}

\* the clock after the last read of a run
ClockAfter(c) == Clock(c, 4 * Len(user) + 1)

(***************************************************************************)
(* The engine as a state machine                                           *)
(***************************************************************************)
Init ==
  /\ \/ \E sh \in PoolShapes :
          /\ user = Pool(sh[1], sh[2], sh[3])
          /\ activityLog = LogFor(sh[2] % (MaxLog + 1))
     \/ /\ user = TwoDonorPool
        /\ activityLog = <<>>
  /\ request \in {[id \in {"r1"} |-> r] : r \in Requests}
  /\ Len(user) > MaxPool =>
        /\ request["r1"].urgencyLevel = "critical"
        /\ request["r1"].bloodGroup = "O-"
  /\ notification = {}
  /\ now = Now0
  /\ ret = [op |-> "none", pending |-> FALSE]
  /\ inflight = <<>>
  /\ emailIndex = TRUE
  /\ ServicesInit

\* the fields of a request the engine reads, as recorded with a call
Read(req) ==
  [_id |-> req._id, bloodGroup |-> req.bloodGroup,
   urgencyLevel |-> req.urgencyLevel, location |-> req.location,
   requesterId |-> req.requesterId]

\* a caller runs findOptimalDonors on a stored request
FindOptimalDonors(requestId, c, fail) ==
  /\ requestId \in DOMAIN request
  /\ ~fail.request /\ ~fail.update /\ ~fail.notify
  /\ ret' = [op |-> "findOptimalDonors", pending |-> FALSE,
             outcome |-> "return",
             request |-> Read(request[requestId]),
             clk |-> c, fail |-> fail,
             value |-> findOptimalDonors(request[requestId], user,
                                         activityLog, c, fail)]
  /\ now' = ClockAfter(c)
  /\ UNCHANGED <<user, activityLog, request, notification, inflight,
                 emailIndex, services>>

\* expandSearchRadius(requestId, newRadius): every throw inside the try
\* block ends in the catch, which returns []
ExpandSearchRadius(requestId, newRadius, c, fail) ==
  LET found == ~fail.request /\ requestId \in DOMAIN request
      req == request[requestId]
      criteria ==
        [bloodGroup |-> req.bloodGroup,
         location |-> [coordinates |-> req.location,
                       maxDistance |-> newRadius],
         urgencyLevel |-> req.urgencyLevel,
         excludeUserIds |-> {req.requesterId}]
      newMatches == findOptimalDonors(req, user, activityLog, c, fail)
      call == [op |-> "expandSearchRadius", pending |-> FALSE,
               outcome |-> "return", requestId |-> requestId,
               newRadius |-> newRadius, clk |-> c, fail |-> fail]
  IN  /\ now' = ClockAfter(c)
      /\ UNCHANGED <<user, activityLog, inflight, emailIndex, services>>
      /\ IF ~found
         THEN /\ ret' = call @@ [request |-> [_id |-> "none"],
                                 value |-> <<>>]
              /\ UNCHANGED <<request, notification>>
         ELSE IF fail.update
         THEN /\ ret' = call @@ [request |-> Read(req), value |-> <<>>]
              /\ UNCHANGED <<request, notification>>
         ELSE /\ request' =
                   [request EXCEPT ![requestId] =
                      [@ EXCEPT !.matchedDonors = newMatches,
                                !.updatedAt = ClockAfter(c)]]
              /\ notification' =
                   notifyMatchedDonors(notification, req, newMatches,
                                       fail.notify)
              /\ ret' = call @@ [request |-> Read(req),
                                      value |-> newMatches]

\* NotifyMatchedDonors also logging a notification_received entry for
\* every donor it notifies
NotifyMatchedDonors_logs(requestId, notifyFails) ==
  LET req == request[requestId]
      matches == req.matchedDonors
  IN  /\ requestId \in DOMAIN request
      /\ notification' =
           notifyMatchedDonors(notification, req, matches, notifyFails)
      /\ activityLog' =
           activityLog \o
             AsSeq([i \in 1..Len(matches) |->
                [userId |-> matches[i].donorId,
                 action |-> "notification_received", responseTime |-> 0]])
      /\ ret' = [op |-> "notifyMatchedDonors", pending |-> FALSE,
                 outcome |-> "return", request |-> Read(req),
                 fail |-> [NoFail EXCEPT !.notify = notifyFails],
                 calls |-> <<notifyMatchedDonorsCall(req, matches)>>,
                 value |-> "void"]
      /\ UNCHANGED <<user, request, now, inflight, emailIndex, services>>

\* a caller hands a stored request and its stored matches to
\* notifyMatchedDonors
NotifyMatchedDonors(requestId, notifyFails) ==
  LET req == request[requestId]
      matches == req.matchedDonors
  IN  /\ requestId \in DOMAIN request
      /\ notification' =
           notifyMatchedDonors(notification, req, matches, notifyFails)
      /\ ret' = [op |-> "notifyMatchedDonors", pending |-> FALSE,
                 outcome |-> "return", request |-> Read(req),
                 fail |-> [NoFail EXCEPT !.notify = notifyFails],
                 calls |-> <<notifyMatchedDonorsCall(req, matches)>>,
                 value |-> "void"]
      /\ UNCHANGED <<user, activityLog, request, now, inflight, emailIndex,
                     services>>

GetMatchingMetrics(readFails) ==
  /\ ret' = [op |-> "getMatchingMetrics", pending |-> FALSE,
             outcome |-> "return",
             fail |-> [NoFail EXCEPT !.request = readFails],
             value |-> getMatchingMetrics(request, now, readFails)]
  /\ UNCHANGED <<user, activityLog, request, notification, now, inflight,
                 emailIndex, services>>

Next ==
  \/ \E requestId \in DOMAIN request, sc \in Scenarios(now) :
       FindOptimalDonors(requestId, sc[1], sc[2])
  \/ \E requestId \in DOMAIN request, notifyFails \in BOOLEAN :
       NotifyMatchedDonors(requestId, notifyFails)
  \/ \E readFails \in BOOLEAN : GetMatchingMetrics(readFails)
  \/ \E requestId \in RequestIds, newRadius \in NewRadii,
        sc \in Scenarios(now) :
       /\ requestId \notin DOMAIN request => sc = StillScenario(now)
       /\ ExpandSearchRadius(requestId, newRadius, sc[1], sc[2])

Spec == Init /\ [][Next]_vars

(***************************************************************************)
(* Concurrent calls of expandSearchRadius, one step per await              *)
(***************************************************************************)
\* the callers that run expandSearchRadius at the same time, once each
Callers == {1, 2}

\* the pools of the concurrent runs: up to three users
RunPoolShapes == {sh \in PoolShapes : sh[1] <= 3}

RunsInit ==
  /\ \E sh \in RunPoolShapes :
       /\ user = Pool(sh[1], sh[2], sh[3])
       /\ activityLog = LogFor(sh[2] % (MaxLog + 1))
  /\ request \in {[id \in {"r1"} |-> r] : r \in Requests}
  /\ notification = {}
  /\ now = Now0
  /\ ret = [op |-> "none", pending |-> FALSE]
  /\ inflight = <<>>
  /\ emailIndex = TRUE
  /\ ServicesInit

\* the number of runs that have passed the step whose ordinal is field
Ordinal(field) ==
  Cardinality({q \in DOMAIN inflight : inflight[q][field] > 0})

\* await this.requestCollection.findOne({_id}); a missing request throws
\* and the catch returns []
ExpandSearchRadius_findOne(p, requestId, newRadius) ==
  LET found == requestId \in DOMAIN request
      call == [op |-> "expandSearchRadius", requestId |-> requestId,
               newRadius |-> newRadius, newMatches |-> <<>>,
               readNo |-> 0, writeNo |-> 0]
  IN  /\ p \notin DOMAIN inflight
      /\ IF found
         THEN /\ inflight' =
                   inflight @@ (p :> (call @@
                      [pc |-> "findOptimalDonors",
                       request |-> Read(request[requestId])]))
              /\ UNCHANGED ret
         ELSE /\ inflight' =
                   inflight @@ (p :> (call @@
                      [pc |-> "done", request |-> [_id |-> "none"]]))
              /\ ret' = [op |-> "expandSearchRadius", pending |-> FALSE,
                         outcome |-> "return", caller |-> p,
                         requestId |-> requestId, value |-> <<>>]
      /\ UNCHANGED <<user, activityLog, request, notification, now,
                     emailIndex, services>>

\* await this.findOptimalDonors(request), on the request as it was read
ExpandSearchRadius_findOptimalDonors(p) ==
  /\ p \in DOMAIN inflight
  /\ inflight[p].pc = "findOptimalDonors"
  /\ inflight' =
       [inflight EXCEPT ![p] =
          [@ EXCEPT !.pc = "updateOne",
                    !.newMatches =
                       findOptimalDonors(inflight[p].request, user,
                                         activityLog, StillScenario(now)[1],
                                         NoFail),
                    !.readNo = Ordinal("readNo") + 1]]
  /\ UNCHANGED <<user, activityLog, request, notification, now, ret,
                 emailIndex, services>>

\* await this.requestCollection.updateOne({_id}, {$set: {matchedDonors,
\* updatedAt}})
ExpandSearchRadius_updateOne(p) ==
  /\ p \in DOMAIN inflight
  /\ inflight[p].pc = "updateOne"
  /\ request' =
       [request EXCEPT ![inflight[p].requestId] =
          [@ EXCEPT !.matchedDonors = inflight[p].newMatches,
                    !.updatedAt = now]]
  /\ inflight' =
       [inflight EXCEPT ![p] =
          [@ EXCEPT !.pc = "notifyMatchedDonors",
                    !.writeNo = Ordinal("writeNo") + 1]]
  /\ UNCHANGED <<user, activityLog, notification, now, ret, emailIndex,
                 services>>

\* await this.notifyMatchedDonors(request, newMatches); return newMatches
ExpandSearchRadius_notifyMatchedDonors(p) ==
  /\ p \in DOMAIN inflight
  /\ inflight[p].pc = "notifyMatchedDonors"
  /\ notification' =
       notifyMatchedDonors(notification, inflight[p].request,
                           inflight[p].newMatches, FALSE)
  /\ inflight' = [inflight EXCEPT ![p] = [@ EXCEPT !.pc = "done"]]
  /\ ret' = [op |-> "expandSearchRadius", pending |-> FALSE,
             outcome |-> "return", caller |-> p,
             requestId |-> inflight[p].requestId,
             value |-> inflight[p].newMatches]
  /\ UNCHANGED <<user, activityLog, request, now, emailIndex, services>>

\* an hour passes
Tick ==
  /\ now < Now0 + MaxElapsed
  /\ now' = now + 1
  /\ UNCHANGED <<user, activityLog, request, notification, ret, inflight,
                 emailIndex, services>>

RunsNext ==
  \/ \E p \in Callers, requestId \in RequestIds, newRadius \in NewRadii :
       ExpandSearchRadius_findOne(p, requestId, newRadius)
  \/ \E p \in Callers : ExpandSearchRadius_findOptimalDonors(p)
  \/ \E p \in Callers : ExpandSearchRadius_updateOne(p)
  \/ \E p \in Callers : ExpandSearchRadius_notifyMatchedDonors(p)
  \/ Tick

SpecRuns == RunsInit /\ [][RunsNext]_vars

(***************************************************************************)
(* The HTTP server (src/index.js) and UserService.createUser on the user   *)
(* and request collections.  A user document is [_id, email, role,         *)
(* status, isDemo], a request document [_id, requesterEmail, bloodGroup,   *)
(* donation_status, updatedAt].  Handlers that read before they write      *)
(* take one step per database call when the claim is about their           *)
(* interleaving (registration), one step otherwise.                        *)
(***************************************************************************)
\* String.prototype.toLowerCase on the e-mail addresses of the model
toLowerCase(email) ==
  CASE email = "Ann@x.org" -> "ann@x.org"
    [] email = "ROOT@x.org" -> "root@x.org"
    [] OTHER -> email

\* the e-mail addresses requests carry
Emails == {"ann@x.org", "Ann@x.org"}

\* the users /seed-demo-users and an operator create
DemoAdmin ==
  [_id |-> 1, email |-> "admin@bloodbridge.org", role |-> "admin",
   status |-> "active", isDemo |-> TRUE]

RealAdmin ==
  [_id |-> 2, email |-> "root@x.org", role |-> "admin",
   status |-> "active", isDemo |-> FALSE]

\* request bodies of a registration: role and status are "none" when the
\* body has no such field
RegistrationBodies ==
  {[email |-> e, role |-> rs[1], status |-> rs[2]] :
     e \in Emails, rs \in {<<"none", "none">>, <<"admin", "blocked">>}}

\* the handlers that may be in flight at the same time
Handlers == {1, 2}

\* collection.findOne({email}): the position of the first match, 0 if none
FindOneByEmail(users, email) ==
  IF \E i \in 1..Len(users) : users[i].email = email
  THEN CHOOSE i \in 1..Len(users) :
         /\ users[i].email = email
         /\ \A j \in 1..(i - 1) : users[j].email # email
  ELSE 0

\* collection.insertOne(doc) throws on a duplicate key of a unique index
InsertThrows(users, doc, unique) ==
  unique /\ FindOneByEmail(users, doc.email) # 0

InsertOne(users, doc) == Append(users, [doc EXCEPT !._id = Len(users) + 1])

ApiInit ==
  /\ user \in {<<DemoAdmin>>, <<DemoAdmin, RealAdmin>>}
  /\ activityLog = <<>>
  /\ request = <<>>
  /\ notification = {}
  /\ now = Now0
  /\ ret = [op |-> "none", pending |-> FALSE]
  /\ inflight = <<>>
  /\ emailIndex \in BOOLEAN
  /\ ServicesInit

\* the response of a handler
Respond(op, actor, status) ==
  ret' = [op |-> op, pending |-> FALSE, actor |-> actor, status |-> status]

\* POST /auth/register up to its userCollection.findOne
PostAuthRegister_findOne(p, body) ==
  /\ p \notin DOMAIN inflight
  /\ Len(user) < MaxUsers
  /\ IF FindOneByEmail(user, toLowerCase(body.email)) # 0
     THEN /\ Respond("POST /auth/register", "anonymous", 400)
          /\ UNCHANGED inflight
     ELSE /\ inflight' =
               inflight @@ (p :> [op |-> "POST /auth/register",
                                  pc |-> "insertOne",
                                  body |-> [email |-> body.email]])
          /\ UNCHANGED ret
  /\ UNCHANGED <<user, activityLog, request, notification, now, emailIndex,
                 services>>

\* POST /auth/register from its userCollection.insertOne on
PostAuthRegister_insertOne(p) ==
  LET body == inflight[p].body
      userInfo == [_id |-> 0, email |-> toLowerCase(body.email),
                   role |-> "donor", status |-> "active", isDemo |-> FALSE]
  IN  /\ p \in DOMAIN inflight
      /\ inflight[p].op = "POST /auth/register"
      /\ inflight' = [q \in DOMAIN inflight \ {p} |-> inflight[q]]
      /\ IF InsertThrows(user, userInfo, emailIndex)
         THEN /\ Respond("POST /auth/register", "anonymous", 500)
              /\ UNCHANGED user
         ELSE /\ user' = InsertOne(user, userInfo)
              /\ Respond("POST /auth/register", "anonymous", 201)
      /\ UNCHANGED <<activityLog, request, notification, now, emailIndex,
                     services>>

\* POST /users: the body is stored as it is, with defaults for a missing
\* role and status; a throwing insertOne leaves the request unanswered
PostUsers(body) ==
  LET userInfo ==
        [_id |-> 0, email |-> toLowerCase(body.email),
         role |-> IF body.role # "none" THEN body.role ELSE "donor",
         status |-> IF body.status # "none" THEN body.status ELSE "active",
         isDemo |-> FALSE]
  IN  /\ Len(user) < MaxUsers
      /\ IF InsertThrows(user, userInfo, emailIndex)
         THEN /\ Respond("POST /users", "anonymous", 0)
              /\ UNCHANGED user
         ELSE /\ user' = InsertOne(user, userInfo)
              /\ Respond("POST /users", "anonymous", 200)
      /\ UNCHANGED <<activityLog, request, notification, now, inflight,
                     emailIndex, services>>

\* UserService.createUser up to its userCollection.findOne
createUser_findOne(p, userData) ==
  /\ p \notin DOMAIN inflight
  /\ Len(user) < MaxUsers
  /\ IF FindOneByEmail(user, toLowerCase(userData.email)) # 0
     THEN /\ Respond("createUser", "anonymous", "User already exists")
          /\ UNCHANGED inflight
     ELSE /\ inflight' =
               inflight @@ (p :> [op |-> "createUser", pc |-> "insertOne",
                                  body |-> [email |-> userData.email]])
          /\ UNCHANGED ret
  /\ UNCHANGED <<user, activityLog, request, notification, now, emailIndex,
                 services>>

\* UserService.createUser from its userCollection.insertOne on: the
\* registration is logged and the welcome notification is stored
createUser_insertOne(p) ==
  LET userData == inflight[p].body
      newUser == [_id |-> 0, email |-> toLowerCase(userData.email),
                  role |-> "donor", status |-> "active", isDemo |-> FALSE]
      userId == Len(user) + 1
  IN  /\ p \in DOMAIN inflight
      /\ inflight[p].op = "createUser"
      /\ inflight' = [q \in DOMAIN inflight \ {p} |-> inflight[q]]
      /\ IF InsertThrows(user, newUser, emailIndex)
         THEN /\ Respond("createUser", "anonymous", "Failed to create user")
              /\ UNCHANGED <<user, activityLog, notification>>
         ELSE /\ user' = InsertOne(user, newUser)
              /\ activityLog' =
                   Append(activityLog,
                          [userId |-> userId, action |-> "user_registered",
                           responseTime |-> 0])
              /\ notification' =
                   notification \cup
                     {[userId |-> userId, type |-> "welcome",
                       requestId |-> "none", priority |-> "medium",
                       channels |-> {"in_app", "email"},
                       status |-> "pending"]}
              /\ Respond("createUser", "anonymous", "success")
      /\ UNCHANGED <<request, now, emailIndex, services>>

\* verifyToken: the e-mail addresses a valid token may carry
TokenEmails == {user[i].email : i \in 1..Len(user)}

\* checkDemoAdmin: the request is answered 403; a failing lookup lets the
\* request through
checkDemoAdmin(users, decodedEmail, lookupFails) ==
  LET i == FindOneByEmail(users, decodedEmail)
  IN  /\ ~lookupFails
      /\ i # 0
      /\ users[i].isDemo /\ users[i].role = "admin"

\* the roles and statuses a request may name
NewRoles == {"volunteer", "owner"}

NewStatuses == {"blocked", "deleted"}

\* PATCH /users/role
PatchUsersRole(adminEmail, email, newRole, lookupFails) ==
  LET admin == FindOneByEmail(user, adminEmail)
      target == FindOneByEmail(user, toLowerCase(email))
      op == "PATCH /users/role"
  IN  /\ adminEmail \in TokenEmails
      /\ UNCHANGED <<activityLog, request, notification, now, inflight,
                     emailIndex, services>>
      /\ IF checkDemoAdmin(user, adminEmail, lookupFails)
         THEN Respond(op, adminEmail, 403) /\ UNCHANGED user
         ELSE IF admin = 0 \/ user[admin].role # "admin"
         THEN Respond(op, adminEmail, 403) /\ UNCHANGED user
         ELSE IF newRole \notin {"donor", "volunteer", "admin"}
         THEN Respond(op, adminEmail, 400) /\ UNCHANGED user
         ELSE IF target = 0
         THEN Respond(op, adminEmail, 404) /\ UNCHANGED user
         ELSE IF toLowerCase(adminEmail) = toLowerCase(email)
                 /\ newRole # "admin"
         THEN Respond(op, adminEmail, 400) /\ UNCHANGED user
         ELSE /\ user' = [user EXCEPT ![target].role = newRole]
              /\ Respond(op, adminEmail, 200)

\* PATCH /update/user/status
PatchUpdateUserStatus(adminEmail, email, status, lookupFails) ==
  LET admin == FindOneByEmail(user, adminEmail)
      target == FindOneByEmail(user, toLowerCase(email))
      op == "PATCH /update/user/status"
  IN  /\ adminEmail \in TokenEmails
      /\ UNCHANGED <<activityLog, request, notification, now, inflight,
                     emailIndex, services>>
      /\ IF checkDemoAdmin(user, adminEmail, lookupFails)
         THEN Respond(op, adminEmail, 403) /\ UNCHANGED user
         ELSE IF admin = 0 \/ user[admin].role # "admin"
         THEN Respond(op, adminEmail, 403) /\ UNCHANGED user
         ELSE IF status \notin {"active", "blocked"}
         THEN Respond(op, adminEmail, 400) /\ UNCHANGED user
         ELSE IF toLowerCase(adminEmail) = toLowerCase(email)
                 /\ status = "blocked"
         THEN Respond(op, adminEmail, 400) /\ UNCHANGED user
         ELSE IF target = 0
         THEN Respond(op, adminEmail, 404) /\ UNCHANGED user
         ELSE /\ user' = [user EXCEPT ![target].status = status]
              /\ Respond(op, adminEmail, 200)

\* POST /requests: the body is stored as it is
PostRequests(email, data) ==
  LET id == Cardinality(DOMAIN request) + 1
  IN  /\ email \in TokenEmails
      /\ Cardinality(DOMAIN request) < MaxRequests
      /\ request' = request @@ (id :> (data @@ [_id |-> id,
                                                 createdAt |-> now]))
      /\ Respond("POST /requests", email, 200)
      /\ UNCHANGED <<user, activityLog, notification, now, inflight,
                     emailIndex, services>>

\* PUT /requests/:id: the protected fields are dropped from the body and
\* the rest is set on the caller's own request
PutRequests(email, id, updateData) ==
  LET protectedFields ==
        {"requesterEmail", "donation_status", "donorName", "donorEmail",
         "createdAt", "_id"}
      kept == [f \in DOMAIN updateData \ protectedFields |-> updateData[f]]
      matched == id \in DOMAIN request /\ request[id].requesterEmail = email
  IN  /\ email \in TokenEmails
      /\ IF matched
         THEN /\ request' =
                   [request EXCEPT ![id] =
                      ([updatedAt |-> now] @@ kept) @@ request[id]]
              /\ Respond("PUT /requests/:id", email, 200)
         ELSE /\ UNCHANGED request
              /\ Respond("PUT /requests/:id", email, 403)
      /\ UNCHANGED <<user, activityLog, notification, now, inflight,
                     emailIndex, services>>

\* the bodies of POST /requests and PUT /requests/:id
RequestBodies ==
  {[requesterEmail |-> "admin@bloodbridge.org", bloodGroup |-> "A+",
    donation_status |-> "pending"]}

UpdateBodies ==
  {[bloodGroup |-> "O-", donation_status |-> "done"]}

ApiNext ==
  \/ \E p \in Handlers, body \in RegistrationBodies :
       PostAuthRegister_findOne(p, body)
  \/ \E p \in Handlers : PostAuthRegister_insertOne(p)
  \/ \E body \in RegistrationBodies : PostUsers(body)
  \/ \E p \in Handlers, userData \in RegistrationBodies :
       createUser_findOne(p, userData)
  \/ \E p \in Handlers : createUser_insertOne(p)
  \/ \E adminEmail \in TokenEmails, newRole \in NewRoles,
        lookupFails \in BOOLEAN :
       \E email \in {adminEmail} \cup Emails :
         PatchUsersRole(adminEmail, email, newRole, lookupFails)
  \/ \E adminEmail \in TokenEmails, status \in NewStatuses,
        lookupFails \in BOOLEAN :
       \E email \in {adminEmail} \cup Emails :
         PatchUpdateUserStatus(adminEmail, email, status, lookupFails)
  \/ \E email \in TokenEmails, data \in RequestBodies :
       PostRequests(email, data)
  \/ \E email \in TokenEmails, id \in 1..MaxRequests,
        updateData \in UpdateBodies :
       PutRequests(email, id, updateData)

SpecApi == ApiInit /\ [][ApiNext]_vars

(***************************************************************************)
(* The donation life cycle of a blood request (src/index.js)               *)
(***************************************************************************)
\* new ObjectId(id) throws unless id is a 24 character hex string; the
\* model writes such an id as 0 and the well-formed ones as 1, 2, ...
ObjectIdThrows(id) == id = 0

PathIds == 0..(MaxRequests + 1)

\* the response of a handler to a call on request id
RespondTo(op, actor, status, id, body) ==
  ret' = [op |-> op, pending |-> FALSE, actor |-> actor, status |-> status,
          id |-> id, body |-> body]

\* PATCH /donation-request/:id/donate
PatchDonate(email, id, body) ==
  LET op == "PATCH /donation-request/:id/donate"
  IN  /\ email \in TokenEmails
      /\ UNCHANGED <<user, activityLog, notification, now, inflight,
                     emailIndex, services>>
      /\ IF body.donation_status # "inprogress"
         THEN RespondTo(op, email, 400, id, body) /\ UNCHANGED request
         ELSE IF ObjectIdThrows(id)
         THEN RespondTo(op, email, 500, id, body) /\ UNCHANGED request
         ELSE IF id \notin DOMAIN request
         THEN RespondTo(op, email, 404, id, body) /\ UNCHANGED request
         ELSE /\ request' =
                   [request EXCEPT ![id] =
                      [donation_status |-> "inprogress",
                       donorName |-> body.donorName,
                       donorEmail |-> body.donorEmail,
                       updatedAt |-> now] @@ request[id]]
              /\ RespondTo(op, email, 200, id, body)

\* PATCH /donation-request/:id/update-status
PatchUpdateStatus(email, id, body) ==
  LET op == "PATCH /donation-request/:id/update-status"
  IN  /\ email \in TokenEmails
      /\ UNCHANGED <<user, activityLog, notification, now, inflight,
                     emailIndex, services>>
      /\ IF body.donation_status \notin {"done", "canceled"}
         THEN RespondTo(op, email, 400, id, body) /\ UNCHANGED request
         ELSE IF ObjectIdThrows(id)
         THEN RespondTo(op, email, 500, id, body) /\ UNCHANGED request
         ELSE IF \/ id \notin DOMAIN request
                 \/ request[id].donation_status # "inprogress"
         THEN RespondTo(op, email, 400, id, body) /\ UNCHANGED request
         ELSE /\ request' =
                   [request EXCEPT ![id] =
                      [donation_status |-> body.donation_status,
                       updatedAt |-> now] @@ request[id]]
              /\ RespondTo(op, email, 200, id, body)

\* the bodies of PATCH /donation-request/:id/donate
DonateBodies ==
  {[donation_status |-> "inprogress", donorName |-> "Ann",
    donorEmail |-> "ann@x.org"],
   [donation_status |-> "inprogress", donorName |-> "Bob",
    donorEmail |-> "bob@x.org"],
   [donation_status |-> "done", donorName |-> "Ann",
    donorEmail |-> "ann@x.org"]}

\* the bodies of PATCH /donation-request/:id/update-status
StatusBodies ==
  {[donation_status |-> st] : st \in {"pending", "done", "canceled"}}

\* the bodies of PUT /requests/:id in the life cycle
EditBodies ==
  UpdateBodies \cup
    {[donation_status |-> "pending", donorName |-> "Eve",
      donorEmail |-> "eve@x.org"]}

LifeInit ==
  /\ user = <<DemoAdmin, RealAdmin>>
  /\ activityLog = <<>>
  /\ request = <<>>
  /\ notification = {}
  /\ now = Now0
  /\ ret = [op |-> "none", pending |-> FALSE]
  /\ inflight = <<>>
  /\ emailIndex = TRUE
  /\ ServicesInit

LifeNext ==
  \/ \E email \in TokenEmails, data \in RequestBodies :
       PostRequests(email, data)
  \/ \E email \in TokenEmails, id \in PathIds, body \in DonateBodies :
       PatchDonate(email, id, body)
  \/ \E email \in TokenEmails, id \in PathIds, body \in StatusBodies :
       PatchUpdateStatus(email, id, body)
  \/ \E email \in TokenEmails, id \in 1..MaxRequests,
        updateData \in EditBodies :
       PutRequests(email, id, updateData)
  \/ Tick

SpecLife == LifeInit /\ [][LifeNext]_vars

(***************************************************************************)
(* POST /create-first-admin (src/index.js)                                 *)
(***************************************************************************)
\* userCollection.findOne({role: "admin"}) finds a user
FindOneAdmin(users) == \E i \in 1..Len(users) : users[i].role = "admin"

\* request bodies: valid is FALSE when name, email or password is missing
\* or the password has fewer than 6 characters
FirstAdminBodies ==
  {[email |-> e, valid |-> TRUE] : e \in Emails \cup {"bob@x.org"}}
    \cup {[email |-> "bob@x.org", valid |-> FALSE]}

\* a donor registered before
DonorBob ==
  [_id |-> 1, email |-> "bob@x.org", role |-> "donor", status |-> "active",
   isDemo |-> FALSE]

AdminInit ==
  /\ user \in {<<>>, <<DonorBob>>, <<[RealAdmin EXCEPT !._id = 1]>>}
  /\ activityLog = <<>>
  /\ request = <<>>
  /\ notification = {}
  /\ now = Now0
  /\ ret = [op |-> "none", pending |-> FALSE]
  /\ inflight = <<>>
  /\ emailIndex \in BOOLEAN
  /\ ServicesInit

\* POST /create-first-admin up to its findOne({role: "admin"}) and the
\* validation of the body
PostCreateFirstAdmin_findOneAdmin(p, body) ==
  /\ p \notin DOMAIN inflight
  /\ Len(user) < MaxUsers
  /\ IF FindOneAdmin(user) \/ ~body.valid
     THEN /\ Respond("POST /create-first-admin", "anonymous", 400)
          /\ UNCHANGED inflight
     ELSE /\ inflight' =
               inflight @@ (p :> [op |-> "POST /create-first-admin",
                                  pc |-> "findOneEmail",
                                  body |-> [email |-> body.email]])
          /\ UNCHANGED ret
  /\ UNCHANGED <<user, activityLog, request, notification, now, emailIndex,
                 services>>

\* POST /create-first-admin: its findOne({email})
PostCreateFirstAdmin_findOneEmail(p) ==
  /\ p \in DOMAIN inflight
  /\ inflight[p].op = "POST /create-first-admin"
  /\ inflight[p].pc = "findOneEmail"
  /\ IF FindOneByEmail(user, toLowerCase(inflight[p].body.email)) # 0
     THEN /\ Respond("POST /create-first-admin", "anonymous", 400)
          /\ inflight' = [q \in DOMAIN inflight \ {p} |-> inflight[q]]
     ELSE /\ inflight' = [inflight EXCEPT ![p].pc = "insertOne"]
          /\ UNCHANGED ret
  /\ UNCHANGED <<user, activityLog, request, notification, now, emailIndex,
                 services>>

\* POST /create-first-admin from bcrypt.hash on: the insertOne and the
\* response
PostCreateFirstAdmin_insertOne(p) ==
  LET body == inflight[p].body
      adminUser == [_id |-> 0, email |-> toLowerCase(body.email),
                    role |-> "admin", status |-> "active", isDemo |-> FALSE]
  IN  /\ p \in DOMAIN inflight
      /\ inflight[p].op = "POST /create-first-admin"
      /\ inflight[p].pc = "insertOne"
      /\ inflight' = [q \in DOMAIN inflight \ {p} |-> inflight[q]]
      /\ IF InsertThrows(user, adminUser, emailIndex)
         THEN /\ Respond("POST /create-first-admin", "anonymous", 500)
              /\ UNCHANGED user
         ELSE /\ user' = InsertOne(user, adminUser)
              /\ Respond("POST /create-first-admin", "anonymous", 201)
      /\ UNCHANGED <<activityLog, request, notification, now, emailIndex,
                     services>>

AdminNext ==
  \/ \E p \in Handlers, body \in FirstAdminBodies :
       PostCreateFirstAdmin_findOneAdmin(p, body)
  \/ \E p \in Handlers : PostCreateFirstAdmin_findOneEmail(p)
  \/ \E p \in Handlers : PostCreateFirstAdmin_insertOne(p)

SpecAdmin == AdminInit /\ [][AdminNext]_vars

(***************************************************************************)
(* SocketManager (src/src/config/socket.ts)                                *)
(***************************************************************************)
\* the ids Socket.IO gives to connections, and the userId of a token
\* (0: the token carries no userId)
SocketIds == 1..MaxSockets

SocketUserIds == {0, 1, 2}

\* the map with key k set to v / without key k
MapSet(m, k, v) == [x \in DOMAIN m \cup {k} |-> IF x = k THEN v ELSE m[x]]

MapDelete(m, k) == [x \in DOMAIN m \ {k} |-> m[x]]

isUserOnline(userId) == userId \in DOMAIN connectedUsers

getOnlineUsersCount == Cardinality(DOMAIN connectedUsers)

SocketInit ==
  /\ user = <<>>
  /\ activityLog = <<>>
  /\ request = <<>>
  /\ notification = {}
  /\ now = Now0
  /\ ret = [op |-> "none", pending |-> FALSE]
  /\ inflight = <<>>
  /\ emailIndex = TRUE
  /\ ServicesInit

\* SocketManager.initialize
Initialize ==
  /\ ~io
  /\ io' = TRUE
  /\ ret' = [op |-> "initialize", pending |-> FALSE]
  /\ UNCHANGED <<user, activityLog, request, notification, now, inflight,
                 emailIndex, connectedUsers, sockets, redis, event>>

\* the "connection" handler for a new socket of userId
OnConnection(id, userId) ==
  /\ io
  /\ \A socket \in sockets : socket.id # id
  /\ sockets' = sockets \cup {[id |-> id, userId |-> userId]}
  /\ connectedUsers' =
       IF userId # 0 THEN MapSet(connectedUsers, userId, id)
       ELSE connectedUsers
  /\ ret' = [op |-> "connection", pending |-> FALSE, id |-> id,
             userId |-> userId]
  /\ UNCHANGED <<user, activityLog, request, notification, now, inflight,
                 emailIndex, io, redis, event>>

\* the "disconnect" handler of a socket
OnDisconnect(socket) ==
  /\ socket \in sockets
  /\ sockets' = sockets \ {socket}
  /\ connectedUsers' =
       IF socket.userId # 0 THEN MapDelete(connectedUsers, socket.userId)
       ELSE connectedUsers
  /\ ret' = [op |-> "disconnect", pending |-> FALSE, id |-> socket.id,
             userId |-> socket.userId]
  /\ UNCHANGED <<user, activityLog, request, notification, now, inflight,
                 emailIndex, io, redis, event>>

SocketNext ==
  \/ Initialize
  \/ \E id \in SocketIds, userId \in SocketUserIds : OnConnection(id, userId)
  \/ \E socket \in sockets : OnDisconnect(socket)

SpecSocket == SocketInit /\ [][SocketNext]_vars

(***************************************************************************)
(* NotificationService: the unread counter (Redis) and the collection      *)
(***************************************************************************)
\* Here the notification collection is a sequence of documents
\* [userId, status, readAt]; the _id of a document is its position.
NotifyUserIds == {1, 2}

\* SocketManager.sendToUser: false when the socket server is not set
sendToUser == io

\* countDocuments({userId, status in [sent, delivered], no readAt})
countUnread(notifs, userId) ==
  Cardinality({i \in 1..Len(notifs) :
                 /\ notifs[i].userId = userId
                 /\ notifs[i].status \in {"sent", "delivered"}
                 /\ notifs[i].readAt = NoDate})

\* INCR and DECRBY of a key: a missing key counts as 0
incrementUnreadCount(cache, userId) ==
  MapSet(cache, userId,
         (IF userId \in DOMAIN cache THEN cache[userId] ELSE 0) + 1)

decrementUnreadCount(cache, userId, count) ==
  MapSet(cache, userId,
         (IF userId \in DOMAIN cache THEN cache[userId] ELSE 0) - count)

\* what getUnreadCount answers
getUnreadCount(cache, notifs, userId) ==
  IF userId \in DOMAIN cache THEN cache[userId]
  ELSE countUnread(notifs, userId)

NotifyInit ==
  /\ user = <<>>
  /\ activityLog = <<>>
  /\ request = <<>>
  /\ notification = <<>>
  /\ now = Now0
  /\ ret = [op |-> "none", pending |-> FALSE]
  /\ inflight = <<>>
  /\ emailIndex = TRUE
  /\ io \in BOOLEAN
  /\ connectedUsers = <<>>
  /\ sockets = {}
  /\ redis = <<>>
  /\ event = <<>>

\* NotificationService.sendNotification
SendNotification(userId) ==
  /\ Len(notification) < MaxNotifications
  /\ notification' =
       Append(notification,
              [userId |-> userId,
               status |-> IF sendToUser THEN "sent" ELSE "pending",
               readAt |-> NoDate])
  /\ redis' = incrementUnreadCount(redis, userId)
  /\ ret' = [op |-> "sendNotification", pending |-> FALSE,
             value |-> Len(notification) + 1]
  /\ UNCHANGED <<user, activityLog, request, now, inflight, emailIndex, io,
                 connectedUsers, sockets, event>>

\* NotificationService.sendBulkNotifications to userIds (a sequence)
SendBulkNotifications(userIds) ==
  LET n == Len(userIds)
      Incremented[k \in 0..n] ==
        IF k = 0 THEN redis
        ELSE incrementUnreadCount(Incremented[k - 1], userIds[k])
  IN  /\ Len(notification) + n <= MaxNotifications
      /\ notification' =
           notification \o
             AsSeq([i \in 1..n |->
                [userId |-> userIds[i], status |-> "sent",
                 readAt |-> NoDate]])
      /\ redis' = Incremented[n]
      /\ ret' = [op |-> "sendBulkNotifications", pending |-> FALSE,
                 value |-> n]
      /\ UNCHANGED <<user, activityLog, request, now, inflight, emailIndex,
                     io, connectedUsers, sockets, event>>

\* NotificationService.markAsRead(userId, notificationIds)
MarkAsRead(userId, notificationIds) ==
  /\ getUnreadCount(redis, <<>>, userId) - Cardinality(notificationIds)
       >= 0 - MaxNotifications
  /\ notification' =
       AsSeq([i \in 1..Len(notification) |->
          IF i \in notificationIds /\ notification[i].userId = userId
          THEN [notification[i] EXCEPT !.readAt = now, !.status = "read"]
          ELSE notification[i]])
  /\ redis' =
       decrementUnreadCount(redis, userId, Cardinality(notificationIds))
  /\ ret' = [op |-> "markAsRead", pending |-> FALSE, value |-> userId]
  /\ UNCHANGED <<user, activityLog, request, now, inflight, emailIndex, io,
                 connectedUsers, sockets, event>>

\* NotificationService.getUnreadCount: a missing key is filled from the
\* collection
GetUnreadCount(userId) ==
  /\ ret' = [op |-> "getUnreadCount", pending |-> FALSE, userId |-> userId,
             value |-> getUnreadCount(redis, notification, userId)]
  /\ redis' =
       IF userId \in DOMAIN redis THEN redis
       ELSE MapSet(redis, userId, countUnread(notification, userId))
  /\ UNCHANGED <<user, activityLog, request, notification, now, inflight,
                 emailIndex, io, connectedUsers, sockets, event>>

\* the key unread_count:<userId> expires (300 s after its last write)
Expire(userId) ==
  /\ userId \in DOMAIN redis
  /\ redis' = MapDelete(redis, userId)
  /\ UNCHANGED <<user, activityLog, request, notification, now, ret,
                 inflight, emailIndex, io, connectedUsers, sockets, event>>

NotifyNext ==
  \/ \E userId \in NotifyUserIds : SendNotification(userId)
  \/ \E userIds \in {<<1>>, <<1, 2>>, <<2, 1, 1>>} :
       SendBulkNotifications(userIds)
  \/ \E userId \in NotifyUserIds,
        notificationIds \in SUBSET (1..MaxNotifications) :
       MarkAsRead(userId, notificationIds)
  \/ \E userId \in NotifyUserIds : GetUnreadCount(userId)
  \/ \E userId \in NotifyUserIds : Expire(userId)

SpecNotify == NotifyInit /\ [][NotifyNext]_vars

(***************************************************************************)
(* Event registration (src/unnamed/part_003)                               *)
(***************************************************************************)
\* the registered users that sign up for events
Attendees ==
  << [_id |-> 1, email |-> "ann@x.org", role |-> "donor",
      status |-> "active", isDemo |-> FALSE],
     [_id |-> 2, email |-> "bob@x.org", role |-> "donor",
      status |-> "active", isDemo |-> FALSE],
     [RealAdmin EXCEPT !._id = 3] >>

\* the event document POST /events inserts
NewEvent(id, capacity) ==
  [_id |-> id, capacity |-> capacity, registrations |-> <<>>,
   registrationCount |-> 0, status |-> "upcoming"]

EventIds == {1, 2}

EventsInit ==
  /\ user = Attendees
  /\ activityLog = <<>>
  /\ request = <<>>
  /\ notification = {}
  /\ now = Now0
  /\ ret = [op |-> "none", pending |-> FALSE]
  /\ inflight = <<>>
  /\ emailIndex = TRUE
  /\ io = FALSE
  /\ connectedUsers = <<>>
  /\ sockets = {}
  /\ redis = <<>>
  /\ \E capacity \in 1..MaxCapacity : event = (1 :> NewEvent(1, capacity))

\* createNotification(userId, userEmail, type, ..., {eventId})
createNotification(notifs, userEmail, type, eventId) ==
  notifs \cup {[userEmail |-> toLowerCase(userEmail), type |-> type,
                eventId |-> eventId, read |-> FALSE]}

\* POST /events/:id/register up to the checks on the event it has read
PostEventsRegister_findOne(p, decodedEmail, eventId) ==
  LET op == "POST /events/:id/register"
      found == FindOneByEmail(user, decodedEmail) # 0
      inCollection == eventId \in DOMAIN event
      ev == event[eventId]
  IN  /\ p \notin DOMAIN inflight
      /\ UNCHANGED <<user, activityLog, request, notification, now,
                     emailIndex, services>>
      /\ IF ~found \/ ~inCollection
         THEN Respond(op, decodedEmail, 404) /\ UNCHANGED inflight
         ELSE IF \/ ev.status = "cancelled"
                 \/ ev.registrationCount >= ev.capacity
                 \/ \E i \in 1..Len(ev.registrations) :
                      ev.registrations[i].email = decodedEmail
         THEN Respond(op, decodedEmail, 400) /\ UNCHANGED inflight
         ELSE /\ inflight' =
                   inflight @@ (p :> [op |-> op, pc |-> "updateOne",
                                      email |-> decodedEmail,
                                      eventId |-> eventId])
              /\ UNCHANGED ret

\* POST /events/:id/register from its updateOne on: $push and $inc in one
\* update, then the confirmation
PostEventsRegister_updateOne(p) ==
  LET call == inflight[p]
      id == call.eventId
  IN  /\ p \in DOMAIN inflight
      /\ call.op = "POST /events/:id/register"
      /\ inflight' = [q \in DOMAIN inflight \ {p} |-> inflight[q]]
      /\ event' =
           [event EXCEPT
              ![id].registrations = Append(@, [email |-> call.email]),
              ![id].registrationCount = @ + 1]
      /\ notification' =
           createNotification(notification, call.email,
                              "event_registration", id)
      /\ Respond(call.op, call.email, 200)
      /\ UNCHANGED <<user, activityLog, request, now, emailIndex, io,
                     connectedUsers, sockets, redis>>

\* PATCH /events/:id/cancel by an admin: the attendees are notified
PatchEventsCancel(decodedEmail, eventId) ==
  LET op == "PATCH /events/:id/cancel"
      admin == FindOneByEmail(user, decodedEmail)
      attendees == event[eventId].registrations
      Notified[k \in 0..Len(attendees)] ==
        IF k = 0 THEN notification
        ELSE createNotification(Notified[k - 1], attendees[k].email,
                                "event_cancelled", eventId)
  IN  /\ UNCHANGED <<user, activityLog, request, now, inflight, emailIndex,
                     io, connectedUsers, sockets, redis>>
      /\ IF admin = 0 \/ user[admin].role # "admin"
         THEN /\ Respond(op, decodedEmail, 403)
              /\ UNCHANGED <<event, notification>>
         ELSE IF eventId \notin DOMAIN event
         THEN /\ Respond(op, decodedEmail, 404)
              /\ UNCHANGED <<event, notification>>
         ELSE /\ event' = [event EXCEPT ![eventId].status = "cancelled"]
              /\ notification' = Notified[Len(attendees)]
              /\ Respond(op, decodedEmail, 200)

EventsNext ==
  \/ \E p \in Handlers, decodedEmail \in TokenEmails \cup {"eve@x.org"},
        eventId \in EventIds :
       PostEventsRegister_findOne(p, decodedEmail, eventId)
  \/ \E p \in Handlers : PostEventsRegister_updateOne(p)
  \/ \E decodedEmail \in TokenEmails, eventId \in EventIds :
       PatchEventsCancel(decodedEmail, eventId)

SpecEvents == EventsInit /\ [][EventsNext]_vars

(***************************************************************************)
(* The pure functions, applied to inputs drawn at start-up                 *)
(***************************************************************************)
FnLastDonations ==
  {NoDate, Now0 - Days(10), Now0 - Days(61), Now0 - Days(90) + 1,
   Now0 - Days(90), Now0 - Days(366) + 1, Now0 - Days(366), Now0 + Days(1)}

FnBirthDates ==
  {NoDate, Now0 - Years(18) + 1, Now0 - Years(18), Now0 - Years(30),
   Now0 - Years(65), Now0 - Years(66) + 1, Now0 - Years(66)}

FnTimes == {Now0, Now0 + 1}

\* the donors checkAvailability is applied to
FnDonors ==
  {[User("O-", "donor", "active", 5, last, dob) EXCEPT !._id = 1] :
     last \in FnLastDonations, dob \in FnBirthDates}

\* the donors calculateMatchScore is applied to
FnScoreDonors ==
  {[User(g, "donor", "active", loc, last, dob) EXCEPT !._id = 1] :
     g \in BloodGroup, loc \in {0, 5, 15, 120}, last \in FnLastDonations,
     dob \in {NoDate, Now0 - Years(18) + 1}}

FnRequests == {Request(g, u) : g \in {"A+", "AB-"}, u \in UrgencyLevel}

\* the three clock reads of calculateMatchScore, in order
FnClocks ==
  {clk \in FnTimes \X FnTimes \X FnTimes :
     clk[1] <= clk[2] /\ clk[2] <= clk[3]}

\* activity logs, and whether reading them throws
FnHistories ==
  {<<log, FALSE>> : log \in Logs} \cup {<<LogFor(0), TRUE>>}

\* Long pools for findCompatibleDonors: n O- donors, the farthest first in
\* the collection, at 0, 1, -1, 2, -2, ... km; the donors whose rank by
\* distance is in recent gave blood 30 days ago.
LongPoolOf(n, recent) ==
  AsSeq([i \in 1..n |->
     LET rank == n + 1 - i
         km == rank \div 2
     IN  [User("O-", "donor", "active",
               IF rank % 2 = 1 THEN 0 - km ELSE km,
               IF rank \in recent THEN Now0 - Days(30) ELSE NoDate,
               NoDate) EXCEPT !._id = i]])

LongPools ==
  {LongPoolOf(n, recent) :
     n \in {LongPool - 4, LongPool - 3, LongPool},
     recent \in {{}, 1..5, {r \in 1..LongPool : r % 3 = 0}}}

\* searches: every O- donor around 0 within 50 or 100 km
PendingSearches ==
  {[op |-> "findCompatibleDonors", pending |-> TRUE,
    criteria |-> [bloodGroup |-> "AB+",
                  location |-> [coordinates |-> 0, maxDistance |-> km],
                  urgencyLevel |-> "critical",
                  excludeUserIds |-> {}],
    t |-> Now0] : km \in {50, 100}}

PendingCalls ==
  {[op |-> "isBloodCompatible", pending |-> TRUE,
    donorBloodGroup |-> d, recipientBloodGroup |-> r] :
     d \in BloodGroup, r \in BloodGroup}
  \cup
  {[op |-> "getCompatibleBloodGroups", pending |-> TRUE,
    recipientBloodGroup |-> r] : r \in BloodGroup}
  \cup
  {[op |-> "checkAvailability", pending |-> TRUE, donor |-> donor, t |-> t] :
     donor \in FnDonors, t \in FnTimes}
  \cup
  {[op |-> "calculateMatchScore", pending |-> TRUE, donor |-> donor,
    request |-> req, clk |-> clk, log |-> h[1], logFails |-> h[2]] :
     donor \in FnScoreDonors, req \in FnRequests, clk \in FnClocks,
     h \in FnHistories}

FnInit ==
  /\ \/ user = <<>> /\ ret \in PendingCalls
     \/ user \in LongPools /\ ret \in PendingSearches
  /\ activityLog = <<>>
  /\ request = <<>>
  /\ notification = {}
  /\ now = Now0
  /\ inflight = <<>>
  /\ emailIndex = TRUE
  /\ ServicesInit

Return(value) ==
  /\ ret' = [ret EXCEPT !.pending = FALSE] @@ [value |-> value]
  /\ UNCHANGED <<user, activityLog, request, notification, now, inflight,
                 emailIndex, services>>

CallIsBloodCompatible ==
  /\ ret.pending /\ ret.op = "isBloodCompatible"
  /\ Return(isBloodCompatible(ret.donorBloodGroup, ret.recipientBloodGroup))

CallGetCompatibleBloodGroups ==
  /\ ret.pending /\ ret.op = "getCompatibleBloodGroups"
  /\ Return(getCompatibleBloodGroups(ret.recipientBloodGroup))

CallCheckAvailability ==
  /\ ret.pending /\ ret.op = "checkAvailability"
  /\ Return(checkAvailability(ret.donor, ret.t))

CallCalculateMatchScore ==
  /\ ret.pending /\ ret.op = "calculateMatchScore"
  /\ Return(calculateMatchScore(ret.donor, ret.request, ret.clk, ret.log,
                                ret.logFails))

CallFindCompatibleDonors ==
  /\ ret.pending /\ ret.op = "findCompatibleDonors"
  /\ Return(findCompatibleDonors(ret.criteria, user, ret.t))

FnNext ==
  \/ CallFindCompatibleDonors
  \/ CallIsBloodCompatible
  \/ CallGetCompatibleBloodGroups
  \/ CallCheckAvailability
  \/ CallCalculateMatchScore

SpecFn == FnInit /\ [][FnNext]_vars

\* a call of op has returned
Returned(op) == ret.op = op /\ ~ret.pending

(***************************************************************************)
(* The documented blood-donation relation, stated without the table        *)
(***************************************************************************)
\* the antigens of a blood group: A, B and the Rh factor
Antigens(g) ==
  (IF g \in {"A+", "A-", "AB+", "AB-"} THEN {"A"} ELSE {})
    \cup (IF g \in {"B+", "B-", "AB+", "AB-"} THEN {"B"} ELSE {})
    \cup (IF g \in {"A+", "B+", "AB+", "O+"} THEN {"Rh"} ELSE {})

\* a donor may give to a recipient who has every antigen the donor has
CanDonate(d, r) == Antigens(d) \subseteq Antigens(r)

(***************************************************************************)
(* Claims about the pure functions (SpecFn)                                *)
(***************************************************************************)

\* C1: calculateMatchScore returns a score between 0 and 300, and exactly 0
\* when the donor's blood group cannot be given to the request's.
C1_ScoreBounds ==
  Returned("calculateMatchScore") =>
    /\ 0 <= ret.value /\ ret.value <= 300 * ScoreDen
    /\ ~CanDonate(ret.donor.bloodGroup, ret.request.bloodGroup)
         => ret.value = 0

\* C1 witness: a compatible pair whose weighted sum is above 300 is capped
\* at 300 (critical request, exact match at distance 0, response rate 2).
C1_Witness ==
  /\ Returned("calculateMatchScore")
  /\ ret.value = 300 * ScoreDen
  /\ ret.request.urgencyLevel = "critical"
  /\ ret.donor.bloodGroup = ret.request.bloodGroup
  /\ ret.donor.location = ret.request.location

\* C2: isBloodCompatible(d, r) is the ABO/Rh donation relation on all 64
\* pairs: O- gives to everyone, AB+ receives from everyone, AB+ does not
\* give to O-, AB- receives from exactly AB-, O-, A-, B-; not symmetric.
C2_CompatibilityIsStandard ==
  Returned("isBloodCompatible") =>
    LET d == ret.donorBloodGroup
        r == ret.recipientBloodGroup
    IN  /\ ret.value = CanDonate(d, r)
        /\ d = "O-" => ret.value
        /\ r = "AB+" => ret.value
        /\ (d = "AB+" /\ r = "O-") => ~ret.value
        /\ r = "AB-" => (ret.value <=> d \in {"AB-", "O-", "A-", "B-"})
        /\ (d = "AB+" /\ r = "O-") => isBloodCompatible(r, d)

\* C2 witness: the pair (AB+, O-) has been decided, against the donor.
C2_Witness ==
  /\ Returned("isBloodCompatible")
  /\ ret.donorBloodGroup = "AB+" /\ ret.recipientBloodGroup = "O-"
  /\ ret.value = FALSE

\* C4: a donor whose last donation is less than 90 days before now is
\* unavailable until lastDonationDate + 90 days, with the wait restriction,
\* whatever the date of birth.
C4_NinetyDayRule ==
  (/\ Returned("checkAvailability")
   /\ ret.donor.lastDonationDate # NoDate
   /\ ret.t - ret.donor.lastDonationDate < Days(90))
  => /\ ret.value.isAvailable = FALSE
     /\ ret.value.nextAvailableDate = ret.donor.lastDonationDate + Days(90)
     /\ ret.value.restrictions = <<"Must wait 90 days between donations">>

\* C4 witness: a donor of age 30 who donated 89 days and 23 hours ago.
C4_Witness ==
  /\ Returned("checkAvailability")
  /\ ret.t - ret.donor.lastDonationDate = Days(90) - 1
  /\ ret.donor.dateOfBirth = ret.t - Years(30)
  /\ ~ret.value.isAvailable

\* C5: a donor not blocked by the 90-day rule is unavailable, with the age
\* restriction and no nextAvailableDate, exactly when the date of birth is
\* present and the age is below 18 or above 65 (in years of 365 days);
\* otherwise the donor is available without restrictions.
C5_AgeRule ==
  (/\ Returned("checkAvailability")
   /\ \/ ret.donor.lastDonationDate = NoDate
      \/ ret.t - ret.donor.lastDonationDate >= Days(90))
  => LET dob == ret.donor.dateOfBirth
         outside == /\ dob # NoDate
                    /\ \/ ret.t - dob < Years(18)
                       \/ ret.t - dob >= Years(66)
     IN  /\ ret.value.isAvailable = ~outside
         /\ ret.value.nextAvailableDate = NoDate
         /\ ret.value.restrictions =
              IF outside THEN <<"Age must be between 18-65 years">>
              ELSE <<>>

\* C5 witness: a donor in the last hour of age 65, 90 days after the last
\* donation, is available.
C5_Witness ==
  /\ Returned("checkAvailability")
  /\ ret.donor.lastDonationDate = ret.t - Days(90)
  /\ ret.donor.dateOfBirth = ret.t - Years(66) + 1
  /\ ret.value.isAvailable
  /\ ret.value.restrictions = <<>>

(***************************************************************************)
(* Claims about matching runs (Spec)                                       *)
(***************************************************************************)
\* the search radius in km and the result limit, as documented per urgency
DocumentedRadius(urgency) ==
  CASE urgency = "critical" -> 100
    [] urgency = "high"     -> 50
    [] urgency = "medium"   -> 25
    [] urgency = "low"      -> 15

DocumentedTopN(urgency) ==
  CASE urgency = "critical" -> 20
    [] urgency = "high"     -> 15
    [] urgency = "medium"   -> 10
    [] urgency = "low"      -> 5

\* a matching run (of either entry point) has returned
RunReturned == ret.op \in {"findOptimalDonors", "expandSearchRadius"}

\* user u qualifies for req at time t, but for blood group and distance
QualifiesButFor(u, req, t) ==
  /\ u.role \in {"donor", "volunteer"}
  /\ u.status = "active"
  /\ u._id # req.requesterId
  /\ \/ u.lastDonationDate = NoDate
     \/ t - u.lastDonationDate >= Days(90)

\* user u is a qualifying candidate for req within radius km at time t
Qualifies(u, req, radius, t) ==
  /\ QualifiesButFor(u, req, t)
  /\ CanDonate(u.bloodGroup, req.bloodGroup)
  /\ Abs(u.location - req.location) <= radius

\* the candidates of the returned run, in the order the search delivered them
RunCandidates ==
  findCompatibleDonors(findOptimalDonorsCriteria(ret.request), user,
                       Clock(ret.clk, 0))

ReturnedIds == {ret.value[i].donorId : i \in 1..Len(ret.value)}

\* C3: every returned match is for a donor whose blood group is compatible
\* with the request's and has a positive score; the groups the candidate
\* query asks for are exactly the groups isBloodCompatible accepts.
C3_OnlyCompatibleMatches ==
  /\ \A r \in BloodGroup :
       getCompatibleBloodGroups(r)
         = {d \in BloodGroup : isBloodCompatible(d, r)}
  /\ RunReturned =>
       \A i \in 1..Len(ret.value) :
         /\ isBloodCompatible(ret.value[i].bloodGroup, ret.request.bloodGroup)
         /\ ret.value[i].matchScore > 0

\* C3 witness: a run returned matches while the pool held a user who
\* qualifies in everything but the blood group.
C3_Witness ==
  /\ ret.op = "findOptimalDonors"
  /\ ret.value # <<>>
  /\ \E i \in 1..Len(user) :
       /\ QualifiesButFor(user[i], ret.request, Clock(ret.clk, 0))
       /\ Abs(user[i].location - ret.request.location)
            <= DocumentedRadius(ret.request.urgencyLevel)
       /\ ~CanDonate(user[i].bloodGroup, ret.request.bloodGroup)

\* C6: the search radius depends on the urgency only (100, 50, 25, 15 km),
\* and every match findOptimalDonors returns carries the donor's distance,
\* which is at most that radius.
C6_MatchesWithinUrgencyRadius ==
  /\ \A u \in UrgencyLevel :
       getMaxDistanceByUrgency(u) = DocumentedRadius(u)
  /\ ret.op = "findOptimalDonors" =>
       \A i \in 1..Len(ret.value) :
         LET m == ret.value[i]
         IN  /\ m.distance
                  = Abs(user[m.donorId].location - ret.request.location)
             /\ m.distance <= DocumentedRadius(ret.request.urgencyLevel)

\* C6 witness: a low-urgency run returned matches and left out a user who
\* qualifies in everything but the distance.
C6_Witness ==
  /\ ret.op = "findOptimalDonors"
  /\ ret.request.urgencyLevel = "low"
  /\ ret.value # <<>>
  /\ \E i \in 1..Len(user) :
       /\ QualifiesButFor(user[i], ret.request, Clock(ret.clk, 0))
       /\ CanDonate(user[i].bloodGroup, ret.request.bloodGroup)
       /\ Abs(user[i].location - ret.request.location) > 15
       /\ i \notin ReturnedIds

C8_SortedAndStable ==
  RunReturned =>
    LET cands == RunCandidates
        Arrival(id) == CHOOSE k \in 1..Len(cands) : cands[k]._id = id
    IN  \A i, j \in 1..Len(ret.value) :
          i < j =>
            \/ ret.value[i].matchScore > ret.value[j].matchScore
            \/ /\ ret.value[i].matchScore = ret.value[j].matchScore
               /\ Arrival(ret.value[i].donorId)
                    < Arrival(ret.value[j].donorId)

\* C8 witness: a returned list with two matches of equal score behind a
\* match of a higher score.
C8_Witness ==
  /\ ret.op = "findOptimalDonors"
  /\ \E i, j \in 1..Len(ret.value) :
       /\ 1 < i /\ i < j
       /\ ret.value[1].matchScore > ret.value[i].matchScore
       /\ ret.value[i].matchScore = ret.value[j].matchScore

\* C9: expandSearchRadius searches within newRadius: with no fault and a
\* standing clock, no returned match is farther than newRadius, and when
\* the candidates within newRadius fit into the result limit, each of them
\* is returned.
C9_ExpandUsesNewRadius ==
  (/\ ret.op = "expandSearchRadius"
   /\ ret.request._id # "none"
   /\ ret.fail = NoFail /\ ret.clk.delta = 0)
  => LET req == ret.request
         within == {i \in 1..Len(user) :
                      Qualifies(user[i], req, ret.newRadius, ret.clk.base)}
     IN  /\ \A k \in 1..Len(ret.value) :
               ret.value[k].distance <= ret.newRadius
         /\ Cardinality(within) <= DocumentedTopN(req.urgencyLevel)
              => within \subseteq ReturnedIds

\* C10: a run whose donor-population read or request read failed, or whose
\* request does not exist, does not return the empty list that stands for
\* "no candidates found".
C10_FailuresReachCaller ==
  (/\ RunReturned
   /\ \/ ret.fail.user
      \/ ret.fail.request
      \/ ret.request._id = "none")
  => ~(ret.outcome = "return" /\ ret.value = <<>>)

\* C12: no step of the matching engine (findOptimalDonors,
\* expandSearchRadius, notifyMatchedDonors, getMatchingMetrics), failed or
\* not, changes the user collection or the activityLog collection.
C12_EngineLeavesDonorsAlone ==
  [][user' = user /\ activityLog' = activityLog]_vars

\* C12 witness: expandSearchRadius has stored matches and notifications
\* for a non-empty pool with a non-empty activity log.
C12_Witness ==
  /\ ret.op = "expandSearchRadius"
  /\ request["r1"].matchedDonors # <<>>
  /\ notification # {}
  /\ user # <<>> /\ activityLog # <<>>

\* the run of the documented end-to-end example has returned
EndToEndRun ==
  /\ ret.op = "findOptimalDonors"
  /\ ret.fail = NoFail
  /\ user = TwoDonorPool /\ activityLog = <<>>
  /\ ret.request.bloodGroup = "O-"
  /\ ret.request.urgencyLevel = "critical"

\* C13: for a critical O- request and the pool of one O- donor 5 km away
\* without any history and one O+ donor 3 km away, findOptimalDonors
\* returns one match, for the O- donor, with response rate 0.5 and score
\* 300.
C13_EndToEnd ==
  EndToEndRun =>
    /\ Len(ret.value) = 1
    /\ ret.value[1].donorId = 1
    /\ ret.value[1].bloodGroup = "O-"
    /\ 2 * ret.value[1].responseHistory.responseRate.n
         = ret.value[1].responseHistory.responseRate.d
    /\ ret.value[1].matchScore = 300 * ScoreDen

\* what the run of the end-to-end example returns: one match, for the O-
\* donor, with response rate 0 and score (100 + 20 + 47.5 + 30 + 0) x 1.5
\* = 296.25
C13_Observed ==
  EndToEndRun =>
    /\ Len(ret.value) = 1
    /\ ret.value[1].donorId = 1
    /\ ret.value[1].responseHistory.responseRate.n = 0
    /\ 4 * ret.value[1].matchScore = 1185 * ScoreDen

(***************************************************************************)
(* The documented score, stated without the scorer                         *)
(***************************************************************************)
DocumentedMultiplier(urgency) ==
  CASE urgency = "critical" -> 15
    [] urgency = "high"     -> 13
    [] urgency = "medium"   -> 11
    [] urgency = "low"      -> 10

\* The documented score of a compatible donor at time t, times ScoreDen.
\* rate = [n, d] is the response rate; longAgo says whether the last
\* donation is over 365 days ago.  Days until available are whole days.
DocumentedScore(donor, req, t, rate, longAgo) ==
  LET last == donor.lastDonationDate
      dob == donor.dateOfBirth
      radius == DocumentedRadius(req.urgencyLevel)
      distance == Abs(donor.location - req.location)
      under90 == last # NoDate /\ t - last < Days(90)
      ageOut == dob # NoDate /\ (t - dob < Years(18) \/ t - dob >= Years(66))
      D == IF distance >= radius THEN 0
           ELSE (50 * ScoreDen * (radius - distance)) \div radius
      A == IF under90 THEN Max(0, 30 - ((last + Days(90) - t) \div DayMs))
           ELSE IF ageOut THEN 0
           ELSE 30
      P == IF last = NoDate THEN 0
           ELSE IF under90 THEN 50
           ELSE IF longAgo THEN 10
           ELSE 0
      exact == IF donor.bloodGroup = req.bloodGroup THEN 20 ELSE 0
      sum == (100 + exact + A - P) * ScoreDen + D
               + (20 * ScoreDen * rate.n) \div rate.d
      scaled == (sum * DocumentedMultiplier(req.urgencyLevel)) \div 10
  IN  IF scaled < 0 THEN 0
      ELSE IF scaled > 300 * ScoreDen THEN 300 * ScoreDen
      ELSE scaled

\* calculateMatchScore has returned for a compatible donor, having read
\* the same time at each of its clock reads
ScoredAtOneTime ==
  /\ Returned("calculateMatchScore")
  /\ CanDonate(ret.donor.bloodGroup, ret.request.bloodGroup)
  /\ ret.clk[1] = ret.clk[2] /\ ret.clk[2] = ret.clk[3]

\* the response rate of the returned call
ScoredRate ==
  getResponseHistory(ret.donor._id, ret.log, ret.logFails).responseRate

OtherLocations == {0, 5, 15, 120}

\* C15: of two candidates that differ only in their distance to the
\* request, the closer one scores at least as much as the farther one; at
\* the urgency radius and beyond it the distance term is 0.
C15_CloserScoresHigher ==
  Returned("calculateMatchScore") =>
    LET req == ret.request
        radius == DocumentedRadius(req.urgencyLevel)
        distance == Abs(ret.donor.location - req.location)
    IN  /\ \A loc \in OtherLocations :
             Abs(loc - req.location) <= distance =>
               calculateMatchScore([ret.donor EXCEPT !.location = loc], req,
                                   ret.clk, ret.log, ret.logFails)
                 >= ret.value
        /\ distance >= radius =>
             /\ distanceScore(distance, getMaxDistanceByUrgency(
                                          req.urgencyLevel)) = 0
             /\ ret.value =
                  calculateMatchScore([ret.donor EXCEPT !.location = 120],
                                      req, ret.clk, ret.log, ret.logFails)

\* C15 witness: a compatible donor exactly at the radius of a low-urgency
\* request scores less than the same donor 5 km away.
C15_Witness ==
  /\ Returned("calculateMatchScore")
  /\ ret.request.urgencyLevel = "low"
  /\ ret.donor.location = 15
  /\ ret.value > 0
  /\ calculateMatchScore([ret.donor EXCEPT !.location = 5], ret.request,
                         ret.clk, ret.log, ret.logFails) > ret.value

(***************************************************************************)
(* Claims about notifications and the response history (Spec)              *)
(***************************************************************************)
\* the notification documents of one delivery path for the given donors
PathDocuments(requestId, donorIds, priority, channels) ==
  {[userId |-> id, type |-> "urgent_request", requestId |-> requestId,
    priority |-> priority, channels |-> channels, status |-> "sent"] :
     id \in donorIds}

\* C16: notifyMatchedDonors makes one call on the notification service:
\* sendUrgentAlert with the donor ids of the matches if the request is
\* critical, sendBulkNotifications with them otherwise.  The documents
\* stored by the step are those of that path only, and a failed delivery
\* stores nothing.
C16_OnePathByUrgency ==
  [][ret'.op = "notifyMatchedDonors" =>
       LET req == ret'.request
           critical == req.urgencyLevel = "critical"
           donorIds == Range(request[req._id].matchedDonors)
           ids == {m.donorId : m \in donorIds}
           urgentDocs ==
             PathDocuments(req._id, ids, "critical", {"in_app", "push", "sms"})
           bulkDocs ==
             PathDocuments(req._id, ids,
                           IF req.urgencyLevel = "high" THEN "high"
                           ELSE "medium", {"in_app"})
       IN  /\ Len(ret'.calls) = 1
           /\ ret'.calls[1].fn = IF critical THEN "sendUrgentAlert"
                                 ELSE "sendBulkNotifications"
           /\ Range(ret'.calls[1].userIds) = ids
           /\ notification' =
                IF ret'.fail.notify THEN notification
                ELSE notification
                       \cup (IF critical THEN urgentDocs ELSE bulkDocs)
     ]_vars

\* C16 witness: notifyMatchedDonors has delivered the matches of a
\* high-urgency request on the bulk path.
C16_Witness ==
  /\ ret.op = "notifyMatchedDonors"
  /\ ret.request.urgencyLevel = "high"
  /\ ~ret.fail.notify
  /\ ret.calls[1].userIds # <<>>
  /\ \E n \in notification : n.priority = "high" /\ n.channels = {"in_app"}

\* the number of activityLog entries of donorId with an action in actions
CountLog(donorId, actions) ==
  Cardinality({i \in 1..Len(activityLog) :
                 /\ activityLog[i].userId = donorId
                 /\ activityLog[i].action \in actions})

\* C17: when the response-history read fails, each match carries the
\* fallback history (rate 0.5, 30 minutes, completion 0.3) and the run
\* returns the same donors as it would otherwise; when the read succeeds,
\* the rate is responses / max(1, notifications received).
C17_HistoryFallback ==
  (ret.op = "findOptimalDonors" /\ ~ret.fail.user) =>
    /\ \A i \in 1..Len(ret.value) :
         LET h == ret.value[i].responseHistory
             id == ret.value[i].donorId
         IN  IF ret.fail.log
             THEN /\ h.responseRate = [n |-> 1, d |-> 2]
                  /\ h.averageResponseTime = [n |-> 30, d |-> 1]
                  /\ h.completionRate = [n |-> 3, d |-> 10]
             ELSE /\ h.responseRate.n = CountLog(id, ResponseActions)
                  /\ h.responseRate.d =
                       Max(1, CountLog(id, {"notification_received"}))
    /\ Len(ret.value)
         = Min(DocumentedTopN(ret.request.urgencyLevel),
               Len(RunCandidates))
    /\ ReturnedIds \subseteq {RunCandidates[k]._id :
                                k \in 1..Len(RunCandidates)}

\* C17 witness: a run whose history reads failed returned a match for a
\* donor whose stored history gives another rate than 0.5.
C17_Witness ==
  /\ ret.op = "findOptimalDonors"
  /\ ret.fail.log
  /\ \E i \in 1..Len(ret.value) :
       /\ ret.value[i].responseHistory.responseRate = [n |-> 1, d |-> 2]
       /\ CountLog(ret.value[i].donorId, ResponseActions) = 2

(***************************************************************************)
(* Claims about concurrent runs (SpecRuns)                                 *)
(***************************************************************************)
\* the runs of expandSearchRadius for requestId that have read the request
\* and not yet written matchedDonors
RunsBeforeWrite(requestId) ==
  {p \in DOMAIN inflight :
     /\ inflight[p].requestId = requestId
     /\ inflight[p].pc \in {"findOptimalDonors", "updateOne"}}

\* the runs of expandSearchRadius for requestId that have written
RunsWritten(requestId) ==
  {p \in DOMAIN inflight :
     inflight[p].requestId = requestId /\ inflight[p].writeNo > 0}

\* C11: two runs of expandSearchRadius for the same request do not
\* overlap between the read of the request and the write of
\* matchedDonors, and of two runs that have written, the one that read
\* the donors later has written later.
C11_RunsDoNotInterleave ==
  \A requestId \in DOMAIN request :
    /\ Cardinality(RunsBeforeWrite(requestId)) <= 1
    /\ \A p, q \in RunsWritten(requestId) :
         inflight[p].readNo < inflight[q].readNo
           => inflight[p].writeNo < inflight[q].writeNo

\* the matches stored for r1 were computed by a run that read the donors
\* before another run whose different, later result they have overwritten
StaleMatchesStored ==
  \E p, q \in RunsWritten("r1") :
    /\ inflight[p].readNo < inflight[q].readNo
    /\ inflight[p].writeNo > inflight[q].writeNo
    /\ inflight[p].newMatches # inflight[q].newMatches
    /\ request["r1"].matchedDonors = inflight[p].newMatches

(***************************************************************************)
(* Claims about the HTTP server and UserService.createUser (SpecApi)       *)
(***************************************************************************)
\* the registration entry points
RegistrationOps == {"POST /auth/register", "POST /users", "createUser"}

\* no two of the users have the same lower-cased e-mail address
UniqueEmails(users) ==
  \A i, j \in 1..Len(users) :
    i # j => toLowerCase(users[i].email) # toLowerCase(users[j].email)

\* C18: after every step the user collection holds at most one user per
\* lower-cased e-mail address, and a registration leaves the records of
\* the users registered before as they were.
C18_OneUserPerEmail ==
  [][/\ UniqueEmails(user')
     /\ ret'.op \in RegistrationOps
          => /\ Len(user') >= Len(user)
             /\ SubSeq(user', 1, Len(user)) = user]_vars

\* C19: the user a registration stores has role donor and status active,
\* whatever the body of the request holds, at every entry point.
C19_RegistrationDefaults ==
  [][(ret'.op \in RegistrationOps /\ Len(user') = Len(user) + 1)
       => /\ user'[Len(user')].role = "donor"
          /\ user'[Len(user')].status = "active"]_vars

\* email is the address of a demo admin among users
IsDemoAdmin(users, email) ==
  \E i \in 1..Len(users) :
    /\ users[i].email = email
    /\ users[i].isDemo /\ users[i].role = "admin"

\* C20: a request authenticated as a demo admin is answered 403 and
\* changes no user and no blood request.
C20_DemoAdminReadOnly ==
  [][(/\ ret' # ret \/ user' # user \/ request' # request
      /\ ret'.op \notin RegistrationOps \cup {"none"}
      /\ IsDemoAdmin(user, ret'.actor))
       => /\ user' = user
          /\ request' = request
          /\ ret'.status = 403]_vars

\* a demo admin has edited a blood request with PUT /requests/:id
DemoAdminEditedRequest ==
  /\ ret.op = "PUT /requests/:id"
  /\ IsDemoAdmin(user, ret.actor)
  /\ ret.status = 200
  /\ \E id \in DOMAIN request : request[id].bloodGroup = "O-"

\* a demo admin has changed the role of a user with PATCH /users/role
DemoAdminChangedRole ==
  /\ ret.op = "PATCH /users/role"
  /\ IsDemoAdmin(user, ret.actor)
  /\ ret.status = 200
  /\ \E i \in 1..Len(user) : user[i].role = "volunteer"

\* checkAvailability answers with the 90-day restriction for donor at t
NinetyDayRestricted(donor, t) ==
  "Must wait 90 days between donations"
     \in Range(checkAvailability(donor, t).restrictions)

\* C21: at one clock reading the three 90-day tests agree for every donor:
\* the candidate filter lets the donor through exactly when checkAvailability
\* does not answer with the 90-day restriction, and exactly when the score
\* does not subtract 50.  Hence no match returned by a run has a
\* nextAvailableDate or a score with the penalty of 50, whatever the clock
\* did between the filter and the later reads.
C21_NinetyDayTestsAgree ==
  /\ \A i \in 1..Len(user), t \in {now, now + 1} :
       /\ eligibleDonorsFilter(user[i], t) <=> ~NinetyDayRestricted(user[i], t)
       /\ eligibleDonorsFilter(user[i], t)
            <=> recentDonationPenalty(user[i], t) # 50
  /\ RunReturned =>
       LET cands == RunCandidates
           Arrival(id) == CHOOSE k \in 1..Len(cands) : cands[k]._id = id
       IN  \A i \in 1..Len(ret.value) :
             LET m == ret.value[i]
                 donor == cands[Arrival(m.donorId)]
                 k == 4 * (Arrival(m.donorId) - 1)
             IN  /\ m.availability.nextAvailableDate = NoDate
                 /\ ~NinetyDayRestricted(donor, Clock(ret.clk, k + 1))
                 /\ recentDonationPenalty(donor, Clock(ret.clk, k + 3)) # 50

\* C21 witness: a run during which the clock advanced returned a donor who
\* has donated before, while the pool held an otherwise qualifying donor
\* whose last donation was less than 90 days before the filter ran.
C21_Witness ==
  /\ ret.op = "findOptimalDonors"
  /\ ret.clk.delta > 0
  /\ \E i \in 1..Len(ret.value) : ret.value[i].lastDonationDate # NoDate
  /\ \E i \in 1..Len(user) :
       /\ user[i]._id \notin ReturnedIds
       /\ user[i].role \in {"donor", "volunteer"} /\ user[i].status = "active"
       /\ isBloodCompatible(user[i].bloodGroup, ret.request.bloodGroup)
       /\ ~eligibleDonorsFilter(user[i], Clock(ret.clk, 0))
       /\ NinetyDayRestricted(user[i], Clock(ret.clk, 0))

\* C22: the response rate calculateMatchScore reads for the donor is between
\* 0 and 1, so the response-history term of the score is between 0 and 20,
\* for every activity log.
C22_ResponseRateInUnitInterval ==
  Returned("calculateMatchScore") =>
    LET responseHistory ==
          getResponseHistory(ret.donor._id, ret.log, ret.logFails)
        historyScore ==
          (responseHistory.responseRate.n * 20 * ScoreDen)
             \div responseHistory.responseRate.d
    IN  /\ 0 <= responseHistory.responseRate.n
        /\ responseHistory.responseRate.n <= responseHistory.responseRate.d
        /\ historyScore \in 0..(20 * ScoreDen)

\* the users the query of a findCompatibleDonors call matches (role, status,
\* blood group, exclusions and radius; not the 90-day rule)
QueryMatches ==
  {i \in 1..Len(user) :
     /\ user[i].role \in {"donor", "volunteer"}
     /\ user[i].status = "active"
     /\ CanDonate(user[i].bloodGroup, ret.criteria.bloodGroup)
     /\ user[i]._id \notin ret.criteria.excludeUserIds
     /\ Abs(user[i].location - ret.criteria.location.coordinates)
          <= ret.criteria.location.maxDistance}

\* how many query matches are nearer than user i / at least as near as i
NearerThan(i) ==
  Cardinality({j \in QueryMatches :
     Abs(user[j].location - ret.criteria.location.coordinates)
       < Abs(user[i].location - ret.criteria.location.coordinates)})

AsNearAs(i) ==
  Cardinality({j \in QueryMatches :
     Abs(user[j].location - ret.criteria.location.coordinates)
       <= Abs(user[i].location - ret.criteria.location.coordinates)})

\* C23: findCompatibleDonors returns at most 100 donors, each of them an
\* eligible one (90-day rule) among the first 100 records matching the
\* query, nearest first; every eligible donor among the first 100 records
\* is returned; an eligible donor behind the 100th record is not returned,
\* even when fewer than 100 donors are returned.
C23_LimitBeforeFilter ==
  Returned("findCompatibleDonors") =>
    LET ids == {ret.value[k]._id : k \in 1..Len(ret.value)}
        Eligible(i) ==
          \/ user[i].lastDonationDate = NoDate
          \/ ret.t - user[i].lastDonationDate >= Days(90)
    IN  /\ Len(ret.value) <= 100
        /\ Cardinality(ids) = Len(ret.value)
        /\ \A k \in 1..Len(ret.value) : ret.value[k] \in Range(user)
        /\ \A i \in 1..Len(user) :
             /\ user[i]._id \in ids =>
                  i \in QueryMatches /\ Eligible(i) /\ NearerThan(i) < 100
             /\ (i \in QueryMatches /\ Eligible(i) /\ AsNearAs(i) <= 100)
                  => user[i]._id \in ids
             /\ (i \in QueryMatches /\ NearerThan(i) >= 100)
                  => user[i]._id \notin ids
        /\ \A k \in 1..(Len(ret.value) - 1) :
             Abs(ret.value[k].location - ret.criteria.location.coordinates)
               <= Abs(ret.value[k + 1].location
                        - ret.criteria.location.coordinates)

\* C23 witness: a search over more than 100 query matches returned fewer
\* than 100 donors and left out an eligible donor behind the 100th record.
C23_Witness ==
  /\ Returned("findCompatibleDonors")
  /\ Cardinality(QueryMatches) > 100
  /\ Len(ret.value) < 100
  /\ \E i \in QueryMatches :
       /\ user[i].lastDonationDate = NoDate
       /\ NearerThan(i) >= 100
       /\ \A k \in 1..Len(ret.value) : ret.value[k]._id # user[i]._id

\* the step is a call of PATCH /donation-request/:id/update-status
UpdateStatusStep ==
  /\ ret'.op = "PATCH /donation-request/:id/update-status"
  /\ ret' # ret \/ request' # request

\* C24: a call of PATCH /donation-request/:id/update-status on a stored
\* request in status inprogress asking for done or canceled sets the
\* status (and nothing else but updatedAt); every other call is answered
\* 400 and leaves the request collection as it was.
C24_UpdateStatusGuard ==
  [][UpdateStatusStep =>
       LET id == ret'.id
           asked == ret'.body.donation_status
       IN  IF /\ id \in DOMAIN request
              /\ request[id].donation_status = "inprogress"
              /\ asked \in {"done", "canceled"}
           THEN /\ ret'.status = 200
                /\ request' =
                     [request EXCEPT ![id] =
                        [donation_status |-> asked,
                         updatedAt |-> request'[id].updatedAt] @@ @]
           ELSE /\ ret'.status = 400
                /\ request' = request]_vars

\* a life-cycle call has changed the status or the donor of a request that
\* was done or canceled
ClosedRequestChanged ==
  \E id \in DOMAIN request :
    /\ request[id].donation_status \in {"done", "canceled"}
    /\ id \in DOMAIN request'
    /\ \/ request'[id].donation_status # request[id].donation_status
       \/ request'[id].donorName # request[id].donorName
       \/ request'[id].donorEmail # request[id].donorEmail

\* C26: donation_status only moves pending -> inprogress -> done or
\* canceled, and no call of PATCH .../donate, PATCH .../update-status or
\* PUT /requests/:id changes the status, donorName or donorEmail of a
\* request that is done or canceled.
C26_StatusLifeCycle ==
  [][/\ ~ClosedRequestChanged
     /\ \A id \in DOMAIN request \cap DOMAIN request' :
          \/ request'[id].donation_status = request[id].donation_status
          \/ <<request[id].donation_status, request'[id].donation_status>>
               \in {<<"pending", "inprogress">>, <<"inprogress", "done">>,
                     <<"inprogress", "canceled">>}]_vars

\* C25: POST /create-first-admin inserts an admin only into a collection
\* that holds no admin, whatever the interleaving of concurrent calls, so
\* the endpoint creates at most one admin; and a call that arrives while an
\* admin exists is answered 400 and inserts nothing.
C25_OneFirstAdmin ==
  [][/\ Len(user') > Len(user) => ~FindOneAdmin(user)
     /\ FindOneAdmin(user) =>
          /\ DOMAIN inflight' \subseteq DOMAIN inflight
          /\ (inflight' = inflight /\ ret' # ret)
               => ret'.status = 400 /\ user' = user]_vars

\* C27: a user is reported online exactly when at least one of the user's
\* sockets is connected, and getOnlineUsersCount counts exactly the users
\* with a connected socket; so a user with two sockets is still online
\* after one of them disconnected.
C27_OnlineIffConnected ==
  /\ \A userId \in SocketUserIds \ {0} :
       isUserOnline(userId) <=> \E socket \in sockets : socket.userId = userId
  /\ getOnlineUsersCount
       = Cardinality({socket.userId : socket \in sockets} \ {0})

\* C28: for every user, getUnreadCount answers the number of the user's
\* stored notifications that are sent or delivered and have no readAt; the
\* cached counter is never negative and never below the stored unread
\* count, after every sequence of sendNotification, sendBulkNotifications,
\* markAsRead and key expiries.
C28_UnreadCountIsStoredCount ==
  \A userId \in NotifyUserIds :
    /\ getUnreadCount(redis, notification, userId)
         = countUnread(notification, userId)
    /\ userId \in DOMAIN redis => redis[userId] >= 0

\* C29: for every event, after any interleaving of concurrent
\* POST /events/:id/register calls, registrationCount is the length of
\* registrations, is at most the capacity, and no e-mail is registered
\* twice.
C29_RegistrationsWithinCapacity ==
  \A id \in DOMAIN event :
    LET ev == event[id]
    IN  /\ ev.registrationCount = Len(ev.registrations)
        /\ ev.registrationCount <= ev.capacity
        /\ \A i, j \in 1..Len(ev.registrations) :
             ev.registrations[i].email = ev.registrations[j].email => i = j

\* the availability term calculateMatchScore added for a donor whose
\* availability it read at t1, with Date.now() reading t2 afterwards
AvailabilityTerm(donor, t1, t2) ==
  LET availability == checkAvailability(donor, t1)
  IN  IF availability.isAvailable THEN 30
      ELSE IF availability.nextAvailableDate # NoDate
      THEN Max(0, 30 - (availability.nextAvailableDate - t2) \div DayMs)
      ELSE 0

\* C30: every match a run returns is consistent in itself: its
\* availability says isAvailable exactly when its score holds the
\* availability term of 30, however much time passes between the reads of
\* the clock during the run.
C30_MatchConsistent ==
  RunReturned =>
    LET cands == RunCandidates
        Arrival(id) == CHOOSE k \in 1..Len(cands) : cands[k]._id = id
    IN  \A i \in 1..Len(ret.value) :
          LET m == ret.value[i]
              donor == cands[Arrival(m.donorId)]
              k == 4 * (Arrival(m.donorId) - 1)
          IN  m.availability.isAvailable
                <=> AvailabilityTerm(donor, Clock(ret.clk, k + 1),
                                     Clock(ret.clk, k + 2)) = 30

====
